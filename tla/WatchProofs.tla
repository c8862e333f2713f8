---------------------------- MODULE WatchProofs ----------------------------
(***************************************************************************)
(* Watching references, for any nodes, names, keys and bounds: what the    *)
(* node believes its client holds is what the client comes to hold, no     *)
(* event is told twice, and the first synced event of a session comes when *)
(* the consumer holds, name by name, what the catalog held while the       *)
(* stream was open.                                                        *)
(*                                                                         *)
(* What the consumer will hold is a fold over the events on their way.     *)
(* The proofs speak of the last word about each name instead, and the      *)
(* lemmas of the first part show that it is what the fold computes.  The   *)
(* second part is about the events of a frame and of the frames in flight, *)
(* the third about the invariant and the steps.                            *)
(***************************************************************************)
EXTENDS Watch, SequenceTheorems, FiniteSetTheorems, WellFoundedInduction, TLAPS

-----------------------------------------------------------------------------
(***************************************************************************)
(* Folds.  What a fold over a sequence computes is an induction over its   *)
(* length, and an induction is the look at a least counterexample.         *)
(***************************************************************************)

\* A set of numbers has a least one.
LEMMA Least ==
    ASSUME NEW T, T \subseteq Nat, T # {}
    PROVE  \E m \in T : \A k \in T : m <= k
<1>1. PICK m \in T : \A k \in T : ~ (<<k, m>> \in OpToRel(<, Nat))
    BY NatLessThanWellFounded, WFMin, Zenon
<1>2. \A k \in T : ~ (k < m)
    BY <1>1 DEF OpToRel
<1> QED
    BY <1>2

\* Numbers that begin with 0 and of which each has its successor are all of them.
LEMMA Induction ==
    ASSUME NEW T, NEW n \in Nat, T \subseteq 0..n, 0 \in T,
           \A k \in 0..(n-1) : k \in T => k + 1 \in T
    PROVE  T = 0..n
<1> SUFFICES ASSUME (0..n) \ T # {} PROVE FALSE
    OBVIOUS
<1>1. PICK m \in (0..n) \ T : \A k \in (0..n) \ T : m <= k
  <2>1. (0..n) \ T \subseteq Nat
    OBVIOUS
  <2> QED
    BY <2>1, Least
<1>2. m # 0 /\ m - 1 \in 0..(n-1)
    OBVIOUS
<1>3. m - 1 \in T
    BY <1>1, <1>2
<1> QED
    BY <1>2, <1>3

\* The greatest of a set that has the greatest possible.
LEMMA MaxTop ==
    ASSUME NEW k \in Nat, NEW s \in SUBSET (1..(k+1)), k+1 \in s
    PROVE  Max(s) = k+1
<1>1. \A y \in s : k+1 >= y
    OBVIOUS
<1>2. \A x \in s : (\A y \in s : x >= y) => x = k+1
    OBVIOUS
<1> QED
    BY <1>1, <1>2 DEF Max

\* The fold of Told over s, for every set of positions.
Telling(f, h, s, n) ==
    f = [t \in SUBSET (1..n) |-> IF t = {} THEN h ELSE Told(f[t \ {Max(t)}], s[Max(t)])]
Tellings(h, s) == CHOOSE f : Telling(f, h, s, Len(s))

\* That is what the library's fold says.
LEMMA FoldUnfolds ==
    ASSUME NEW h, NEW s \in Seq(Event)
    PROVE  FoldLeft(Told, h, s) = Tellings(h, s)[1..Len(s)]
<1>1. DOMAIN s = 1..Len(s)
    OBVIOUS
<1>2. FoldLeft(Told, h, s)
      = (CHOOSE f : f = [t \in SUBSET DOMAIN s |->
            IF t = {} THEN h ELSE Told(f[t \ {Max(t)}], s[Max(t)])])[DOMAIN s]
    BY DEF FoldLeft, MapThenFoldSet
<1> QED
    BY <1>1, <1>2 DEF Tellings, Telling

\* The function is there.
LEMMA FoldExists ==
    ASSUME NEW h, NEW s \in Seq(Event)
    PROVE  Telling(Tellings(h, s), h, s, Len(s))
<1> DEFINE T == {k \in 0..Len(s) : \E f : Telling(f, h, s, k)}
<1>1. 0 \in T
  <2> DEFINE f == [t \in SUBSET (1..0) |-> h]
  <2>1. SUBSET (1..0) = {{}}
    OBVIOUS
  <2>2. Telling(f, h, s, 0)
    BY <2>1 DEF Telling
  <2> QED
    BY <2>2
<1>2. ASSUME NEW k \in 0..(Len(s)-1), k \in T PROVE k + 1 \in T
  <2>1. PICK f : Telling(f, h, s, k)
    BY <1>2
  <2> DEFINE g == [t \in SUBSET (1..(k+1)) |->
                    IF k + 1 \in t THEN Told(f[t \ {k+1}], s[k+1]) ELSE f[t]]
  <2>2. ASSUME NEW t \in SUBSET (1..(k+1)), k + 1 \in t
        PROVE  g[t] = Told(g[t \ {Max(t)}], s[Max(t)])
    <3>1. Max(t) = k + 1
        BY <2>2, MaxTop
    <3>2. t \ {k+1} \in SUBSET (1..(k+1)) /\ k + 1 \notin t \ {k+1}
        OBVIOUS
    <3>3. g[t \ {k+1}] = f[t \ {k+1}]
        BY <3>2
    <3> QED
        BY <3>1, <3>3, <2>2
  <2>3. ASSUME NEW t \in SUBSET (1..(k+1)), k + 1 \notin t, t # {}
        PROVE  g[t] = Told(g[t \ {Max(t)}], s[Max(t)])
    <3>0. \A x \in t : x \in 1..k
        BY <2>3
    <3>1. t \in SUBSET (1..k) /\ t \ {Max(t)} \in SUBSET (1..(k+1)) /\ k + 1 \notin t \ {Max(t)}
        BY <3>0, <2>3, Zenon
    <3>2. g[t] = f[t] /\ g[t \ {Max(t)}] = f[t \ {Max(t)}]
        BY <3>1, <2>3
    <3>3. f[t] = Told(f[t \ {Max(t)}], s[Max(t)])
        BY <3>1, <2>3, <2>1, Zenon DEF Telling
    <3> QED
        BY <3>2, <3>3
  <2>4. g[{}] = h
    BY <2>1 DEF Telling
  <2>5. \A t \in SUBSET (1..(k+1)) :
            g[t] = IF t = {} THEN h ELSE Told(g[t \ {Max(t)}], s[Max(t)])
    BY <2>2, <2>3, <2>4
  <2>6. g = [t \in SUBSET (1..(k+1)) |-> IF t = {} THEN h ELSE Told(g[t \ {Max(t)}], s[Max(t)])]
    BY <2>5
  <2>7. Telling(g, h, s, k + 1)
    BY <2>6 DEF Telling
  <2> QED
    BY <2>7
<1>3. T = 0..Len(s)
  <2>1. T \subseteq 0..Len(s) /\ Len(s) \in Nat
    OBVIOUS
  <2>2. \A k \in 0..(Len(s)-1) : k \in T => k + 1 \in T
    BY <1>2
  <2> HIDE DEF T
  <2> QED
    BY <1>1, <2>1, <2>2, Induction
<1>4. \E f : Telling(f, h, s, Len(s))
  <2>1. Len(s) \in 0..Len(s)
    OBVIOUS
  <2> QED
    BY <1>3, <2>1, Zenon
<1> QED
    BY <1>4 DEF Tellings

\* What is told after the first k events.
After(h, s, k) == Tellings(h, s)[1..k]

\* A fold takes one event after the other.
LEMMA FoldSteps ==
    ASSUME NEW h, NEW s \in Seq(Event)
    PROVE  /\ FoldLeft(Told, h, s) = After(h, s, Len(s))
           /\ After(h, s, 0) = h
           /\ \A k \in 0..(Len(s)-1) : After(h, s, k + 1) = Told(After(h, s, k), s[k+1])
<1>1. Telling(Tellings(h, s), h, s, Len(s))
    BY FoldExists
<1>2. After(h, s, 0) = h
  <2>1. 1..0 = {} /\ {} \in SUBSET (1..Len(s))
    OBVIOUS
  <2> QED
    BY <1>1, <2>1 DEF Telling, After
<1>3. ASSUME NEW k \in 0..(Len(s)-1)
      PROVE  After(h, s, k + 1) = Told(After(h, s, k), s[k+1])
  <2>1. 1..(k+1) \in SUBSET (1..Len(s)) /\ 1..(k+1) # {} /\ (1..(k+1)) \ {k+1} = 1..k
    OBVIOUS
  <2>2. Max(1..(k+1)) = k + 1
    BY MaxTop
  <2> QED
    BY <1>1, <2>1, <2>2 DEF Telling, After
<1> QED
    BY <1>2, <1>3, FoldUnfolds DEF After

-----------------------------------------------------------------------------
\* What an event says of a name.
About(e, n) == e.typ # "synced" /\ e.name = n
Tells(e, n, k) ==
    \/ e.typ = "change" /\ e.name = n /\ e.key = k
    \/ e.typ = "deleted" /\ e.name = n /\ k = NoKey

\* k is the last word about n: of the events in s, or else of what is held.
LastWord(h, s, n, k) ==
    \/ \E i \in 1..Len(s) : Tells(s[i], n, k) /\ \A j \in (i+1)..Len(s) : ~ About(s[j], n)
    \/ h[n] = k /\ \A j \in 1..Len(s) : ~ About(s[j], n)

\* An event tells of one name, of one key.
LEMMA EventFacts ==
    ASSUME NEW e \in Event
    PROVE  /\ e.typ \in {"change", "deleted", "synced"}
           /\ e.typ = "synced" <=> e = Synced
           /\ e.typ # "synced" => e.name \in Names
           /\ e.typ = "change" => e.key \in Keys
<1>1. CASE e \in [typ : {"change"}, name : Names, key : Keys]
    BY <1>1 DEF Synced
<1>2. CASE e \in [typ : {"deleted"}, name : Names]
    BY <1>2 DEF Synced
<1>3. CASE e = Synced
    BY <1>3 DEF Synced
<1> QED
    BY <1>1, <1>2, <1>3 DEF Event

\* One event told.
LEMMA ToldFacts ==
    ASSUME NEW h \in Held, NEW e \in Event
    PROVE  /\ Told(h, e) \in Held
           /\ \A n \in Names : IF About(e, n) THEN Tells(e, n, Told(h, e)[n]) ELSE Told(h, e)[n] = h[n]
<1>1. CASE e.typ = "change"
    BY <1>1, EventFacts DEF Told, About, Tells, Held, MaybeKey
<1>2. CASE e.typ = "deleted"
    BY <1>2, EventFacts DEF Told, About, Tells, Held, MaybeKey
<1>3. CASE e.typ = "synced"
    BY <1>3, EventFacts DEF Told, About, Tells, Held, MaybeKey
<1> QED
    BY <1>1, <1>2, <1>3, EventFacts

\* An event tells of a name in one way.
LEMMA TellsFacts ==
    ASSUME NEW e \in Event, NEW n, NEW k, Tells(e, n, k)
    PROVE  /\ About(e, n) /\ n \in Names /\ k \in MaybeKey
           /\ \A l : Tells(e, n, l) => l = k
    BY EventFacts DEF Tells, About, MaybeKey

\* A fold of Told leaves the last word about every name.
LEMMA FoldIsLastWord ==
    ASSUME NEW h \in Held, NEW s \in Seq(Event)
    PROVE  /\ FoldLeft(Told, h, s) \in Held
           /\ \A n \in Names : LastWord(h, s, n, FoldLeft(Told, h, s)[n])
<1> DEFINE Said(m, n, k) ==
        \/ \E i \in 1..m : Tells(s[i], n, k) /\ \A j \in (i+1)..m : ~ About(s[j], n)
        \/ h[n] = k /\ \A j \in 1..m : ~ About(s[j], n)
    T == {m \in 0..Len(s) : After(h, s, m) \in Held /\ \A n \in Names : Said(m, n, After(h, s, m)[n])}
<1>1. 0 \in T
  <2>1. After(h, s, 0) = h
    BY FoldSteps, Zenon
  <2>2. 0 \in 0..Len(s) /\ 1..0 = {}
    OBVIOUS
  <2> QED
    BY <2>1, <2>2
<1>2. ASSUME NEW m \in 0..(Len(s)-1), m \in T PROVE m + 1 \in T
  <2>1. After(h, s, m + 1) = Told(After(h, s, m), s[m+1]) /\ After(h, s, m) \in Held
    BY <1>2, FoldSteps
  <2>2. s[m+1] \in Event /\ m + 1 \in 0..Len(s)
    OBVIOUS
  <2>3. After(h, s, m + 1) \in Held
    BY <2>1, <2>2, ToldFacts
  <2>4. ASSUME NEW n \in Names PROVE Said(m + 1, n, After(h, s, m + 1)[n])
    <3>1. CASE About(s[m+1], n)
      <4>1. Tells(s[m+1], n, After(h, s, m + 1)[n])
        BY <3>1, <2>1, <2>2, ToldFacts
      <4>2. m + 1 \in 1..(m+1) /\ (m+1+1)..(m+1) = {}
        OBVIOUS
      <4> QED
        BY <4>1, <4>2
    <3>2. CASE ~ About(s[m+1], n)
      <4>1. After(h, s, m + 1)[n] = After(h, s, m)[n]
        BY <3>2, <2>1, <2>2, ToldFacts
      <4> DEFINE k == After(h, s, m)[n]
      <4>2. Said(m, n, k)
        BY <1>2
      <4> HIDE DEF k
      <4>3. CASE \E i \in 1..m : Tells(s[i], n, k) /\ \A j \in (i+1)..m : ~ About(s[j], n)
        <5>1. PICK i \in 1..m : Tells(s[i], n, k) /\ \A j \in (i+1)..m : ~ About(s[j], n)
            BY <4>3
        <5>2. i \in 1..(m+1) /\ \A j \in (i+1)..(m+1) : j \in (i+1)..m \/ j = m + 1
            OBVIOUS
        <5>3. Said(m + 1, n, k)
            BY <5>1, <5>2, <3>2
        <5> QED
            BY <5>3, <4>1 DEF k
      <4>4. CASE h[n] = k /\ \A j \in 1..m : ~ About(s[j], n)
        <5>1. \A j \in 1..(m+1) : j \in 1..m \/ j = m + 1
            OBVIOUS
        <5>2. Said(m + 1, n, k)
            BY <5>1, <4>4, <3>2
        <5> QED
            BY <5>2, <4>1 DEF k
      <4> QED
        BY <4>2, <4>3, <4>4
    <3> QED
        BY <3>1, <3>2
  <2> QED
    BY <2>2, <2>3, <2>4
<1>3. T = 0..Len(s)
  <2>1. T \subseteq 0..Len(s) /\ Len(s) \in Nat
    OBVIOUS
  <2>2. \A k \in 0..(Len(s)-1) : k \in T => k + 1 \in T
    BY <1>2
  <2> HIDE DEF T
  <2> QED
    BY <1>1, <2>1, <2>2, Induction
<1>4. Len(s) \in T
    BY <1>3
<1>5. FoldLeft(Told, h, s) = After(h, s, Len(s))
    BY FoldSteps
<1> QED
    BY <1>4, <1>5 DEF LastWord

\* There is one last word.
LEMMA OneLastWord ==
    ASSUME NEW h, NEW s \in Seq(Event), NEW n, NEW k, NEW l,
           LastWord(h, s, n, k), LastWord(h, s, n, l)
    PROVE  k = l
<1>1. CASE \A j \in 1..Len(s) : ~ About(s[j], n)
    BY <1>1, TellsFacts DEF LastWord
<1>2. CASE ~ \A j \in 1..Len(s) : ~ About(s[j], n)
  <2>1. PICK i \in 1..Len(s) : Tells(s[i], n, k) /\ \A j \in (i+1)..Len(s) : ~ About(s[j], n)
    BY <1>2 DEF LastWord
  <2>2. PICK m \in 1..Len(s) : Tells(s[m], n, l) /\ \A j \in (m+1)..Len(s) : ~ About(s[j], n)
    BY <1>2 DEF LastWord
  <2>3. About(s[i], n) /\ About(s[m], n)
    BY <2>1, <2>2, TellsFacts
  <2>4. i = m
    BY <2>1, <2>2, <2>3
  <2> QED
    BY <2>1, <2>2, <2>4, TellsFacts
<1> QED
    BY <1>1, <1>2

-----------------------------------------------------------------------------
(***************************************************************************)
(* Sequences put together.                                                 *)
(***************************************************************************)
Joining(f, ss, n) == f = [i \in 1..n |-> IF i = 1 THEN ss[i] ELSE f[i-1] \o ss[i]]
Joined(ss) == CHOOSE f : Joining(f, ss, Len(ss))

\* The function that FlattenSeq computes is there.
LEMMA JoinExists ==
    ASSUME NEW ss \in Seq(Seq(Event))
    PROVE  Joining(Joined(ss), ss, Len(ss))
<1> DEFINE T == {k \in 0..Len(ss) : \E f : Joining(f, ss, k)}
<1>1. 0 \in T
  <2> DEFINE f == [i \in 1..0 |-> <<>>]
  <2>1. Joining(f, ss, 0)
    BY DEF Joining
  <2> QED
    BY <2>1
<1>2. ASSUME NEW k \in 0..(Len(ss)-1), k \in T PROVE k + 1 \in T
  <2>1. PICK f : Joining(f, ss, k)
    BY <1>2
  <2> DEFINE g == [i \in 1..(k+1) |-> IF i <= k THEN f[i] ELSE IF i = 1 THEN ss[i] ELSE f[i-1] \o ss[i]]
  <2>2. \A i \in 1..(k+1) : g[i] = IF i = 1 THEN ss[i] ELSE g[i-1] \o ss[i]
    <3> SUFFICES ASSUME NEW i \in 1..(k+1)
                 PROVE  g[i] = IF i = 1 THEN ss[i] ELSE g[i-1] \o ss[i]
        OBVIOUS
    <3>1. i # 1 => g[i-1] = f[i-1]
        OBVIOUS
    <3>2. i \in 1..k => f[i] = IF i = 1 THEN ss[i] ELSE f[i-1] \o ss[i]
        BY <2>1, Zenon DEF Joining
    <3>3. i <= k => i \in 1..k
        OBVIOUS
    <3> QED
        BY <3>1, <3>2, <3>3
  <2>3. g = [i \in 1..(k+1) |-> IF i = 1 THEN ss[i] ELSE g[i-1] \o ss[i]]
    BY <2>2
  <2>4. Joining(g, ss, k + 1)
    BY <2>3 DEF Joining
  <2> QED
    BY <2>4
<1>3. T = 0..Len(ss)
  <2>1. T \subseteq 0..Len(ss) /\ Len(ss) \in Nat
    OBVIOUS
  <2>2. \A k \in 0..(Len(ss)-1) : k \in T => k + 1 \in T
    BY <1>2
  <2> HIDE DEF T
  <2> QED
    BY <1>1, <2>1, <2>2, Induction
<1>4. \E f : Joining(f, ss, Len(ss))
  <2>1. Len(ss) \in 0..Len(ss)
    OBVIOUS
  <2> QED
    BY <1>3, <2>1, Zenon
<1> QED
    BY <1>4 DEF Joined

\* f has the sequences of ss put together, from the first to each of them.
Joins(f, ss) ==
    /\ f[1] = ss[1]
    /\ \A i \in 1..(Len(ss)-1) : f[i+1] = f[i] \o ss[i+1]
    /\ \A i \in 1..Len(ss) : f[i] \in Seq(Event)

\* FlattenSeq joins one sequence after the other.
LEMMA JoinSteps ==
    ASSUME NEW ss \in Seq(Seq(Event)), Len(ss) # 0
    PROVE  \E f : FlattenSeq(ss) = f[Len(ss)] /\ Joins(f, ss)
<1>1. Joining(Joined(ss), ss, Len(ss))
    BY JoinExists
<1>2. Len(ss) \in Nat /\ Len(ss) # 0
    OBVIOUS
<1>3. FlattenSeq(ss) = Joined(ss)[Len(ss)]
    BY <1>2 DEF FlattenSeq, Joined, Joining
<1>4. Joined(ss)[1] = ss[1]
    BY <1>1, <1>2 DEF Joining
<1>5. ASSUME NEW i \in 1..(Len(ss)-1) PROVE Joined(ss)[i+1] = Joined(ss)[i] \o ss[i+1]
  <2>1. i + 1 \in 1..Len(ss) /\ i + 1 # 1 /\ (i + 1) - 1 = i
    BY <1>2
  <2>2. Joined(ss)[i+1] = Joined(ss)[(i+1)-1] \o ss[i+1]
    BY <1>1, <2>1, Zenon DEF Joining
  <2> QED
    BY <2>1, <2>2
<1>6. \A i \in 1..Len(ss) : Joined(ss)[i] \in Seq(Event)
  <2> DEFINE T == {0} \cup {i \in 1..Len(ss) : Joined(ss)[i] \in Seq(Event)}
  <2>1. 0 \in T /\ T \subseteq 0..Len(ss)
    BY <1>2
  <2>2. ASSUME NEW k \in 0..(Len(ss)-1), k \in T PROVE k + 1 \in T
    <3>1. ss[k+1] \in Seq(Event) /\ k + 1 \in 1..Len(ss)
        BY <1>2
    <3>2. CASE k = 0
        BY <3>1, <3>2, <1>4
    <3>3. CASE k # 0
      <4>1. k \in 1..(Len(ss)-1) /\ Joined(ss)[k] \in Seq(Event)
        BY <3>3, <2>2, <1>2
      <4>2. Joined(ss)[k+1] = Joined(ss)[k] \o ss[k+1]
        BY <4>1, <1>5
      <4>3. Joined(ss)[k] \o ss[k+1] \in Seq(Event)
        BY <4>1, <3>1, ConcatProperties
      <4> QED
        BY <3>1, <4>2, <4>3
    <3> QED
        BY <3>2, <3>3
  <2>3. T = 0..Len(ss)
    <3>1. \A k \in 0..(Len(ss)-1) : k \in T => k + 1 \in T
        BY <2>2
    <3> HIDE DEF T
    <3> QED
        BY <1>2, <2>1, <3>1, Induction
  <2> QED
    BY <2>3
<1>7. Joins(Joined(ss), ss)
    BY <1>4, <1>5, <1>6 DEF Joins
<1> QED
    BY <1>3, <1>7, Zenon

\* Where the brackets are does not matter.
LEMMA ConcatAssoc ==
    ASSUME NEW a \in Seq(Event), NEW b \in Seq(Event), NEW c \in Seq(Event)
    PROVE  (a \o b) \o c = a \o (b \o c)
    OBVIOUS

\* What FlattenSeq returns.
LEMMA FlattenType ==
    ASSUME NEW ss \in Seq(Seq(Event))
    PROVE  FlattenSeq(ss) \in Seq(Event) /\ (Len(ss) = 0 => FlattenSeq(ss) = <<>>)
<1>1. CASE Len(ss) = 0
    BY <1>1 DEF FlattenSeq
<1>2. CASE Len(ss) # 0
  <2>1. PICK f : FlattenSeq(ss) = f[Len(ss)] /\ Joins(f, ss)
    BY <1>2, JoinSteps, Zenon
  <2>2. Len(ss) \in 1..Len(ss)
    BY <1>2
  <2> QED
    BY <1>2, <2>1, <2>2 DEF Joins
<1> QED
    BY <1>1, <1>2

\* One more sequence at the end.
LEMMA FlattenAppend ==
    ASSUME NEW ss \in Seq(Seq(Event)), NEW s \in Seq(Event)
    PROVE  FlattenSeq(Append(ss, s)) = FlattenSeq(ss) \o s
<1> DEFINE tt == Append(ss, s)
           n == Len(ss)
<1>1. tt \in Seq(Seq(Event)) /\ Len(tt) # 0 /\ Len(tt) = n + 1 /\ n \in Nat /\ tt[n+1] = s
      /\ \A i \in 1..n : tt[i] = ss[i]
    OBVIOUS
<1> SUFFICES FlattenSeq(tt) = FlattenSeq(ss) \o s
    OBVIOUS
<1> HIDE DEF tt
<1>2. PICK g : FlattenSeq(tt) = g[Len(tt)] /\ Joins(g, tt)
    BY <1>1, JoinSteps, Zenon
<1>3. CASE Len(ss) = 0
  <2>1. FlattenSeq(ss) = <<>>
    BY <1>3, FlattenType, Zenon
  <2>2. FlattenSeq(tt) = s
    BY <1>1, <1>2, <1>3 DEF Joins
  <2> QED
    BY <2>1, <2>2
<1>4. CASE Len(ss) # 0
  <2>1. PICK f : FlattenSeq(ss) = f[Len(ss)] /\ Joins(f, ss)
    BY <1>4, JoinSteps, Zenon
  <2> DEFINE T == {k \in 0..n : k # 0 => g[k] = f[k]}
  <2>2. 0 \in T /\ T \subseteq 0..n
    OBVIOUS
  <2>3. ASSUME NEW k \in 0..(n-1), k \in T PROVE k + 1 \in T
    <3>0. k + 1 \in 1..n /\ k + 1 \in 0..n
        OBVIOUS
    <3>1. k + 1 \in 1..n /\ k + 1 \in 0..n /\ tt[k+1] = ss[k+1]
        BY <1>1, <3>0, Zenon
    <3>2. CASE k = 0
        BY <3>1, <3>2, <1>2, <2>1 DEF Joins
    <3>3. CASE k # 0
      <4>1. k \in 1..(Len(tt)-1) /\ k \in 1..(Len(ss)-1) /\ g[k] = f[k]
        BY <3>3, <2>3, <1>1
      <4>2. g[k+1] = g[k] \o tt[k+1] /\ f[k+1] = f[k] \o ss[k+1]
        BY <4>1, <1>2, <2>1 DEF Joins
      <4> QED
        BY <3>1, <4>1, <4>2
    <3> QED
        BY <3>2, <3>3
  <2>4. T = 0..n
    <3>1. \A k \in 0..(n-1) : k \in T => k + 1 \in T
        BY <2>3
    <3> HIDE DEF T
    <3> QED
        BY <1>1, <2>2, <3>1, Induction
  <2>5. n \in 0..n /\ n \in 1..(Len(tt)-1) /\ n # 0
    BY <1>1, <1>4
  <2>6. n \in T
    BY <2>4, <2>5, Zenon
  <2>7. g[n] = f[n]
    BY <2>5, <2>6, Zenon
  <2>8. g[n+1] = g[n] \o tt[n+1]
    BY <2>5, <1>2, Zenon DEF Joins
  <2> QED
    BY <2>7, <2>8, <2>1, <1>1, <1>2
<1> QED
    BY <1>3, <1>4

\* The first sequence, and the rest.
LEMMA FlattenTail ==
    ASSUME NEW ss \in Seq(Seq(Event)), Len(ss) # 0
    PROVE  FlattenSeq(ss) = ss[1] \o FlattenSeq(Tail(ss))
<1> DEFINE tt == Tail(ss)
           n == Len(tt)
<1>1. tt \in Seq(Seq(Event)) /\ Len(ss) = n + 1 /\ n \in Nat /\ \A i \in 1..n : tt[i] = ss[i+1]
    OBVIOUS
<1>2. ss[1] \in Seq(Event)
    OBVIOUS
<1> SUFFICES FlattenSeq(ss) = ss[1] \o FlattenSeq(tt)
    OBVIOUS
<1> HIDE DEF tt
<1>3. PICK g : FlattenSeq(ss) = g[Len(ss)] /\ Joins(g, ss)
    BY JoinSteps, Zenon
<1>4. CASE Len(tt) = 0
  <2>1. FlattenSeq(tt) = <<>>
    BY <1>1, <1>4, FlattenType
  <2>2. FlattenSeq(ss) = ss[1]
    BY <1>1, <1>3, <1>4 DEF Joins
  <2> QED
    BY <2>1, <2>2, <1>2
<1>5. CASE Len(tt) # 0
  <2>1. PICK f : FlattenSeq(tt) = f[Len(tt)] /\ Joins(f, tt)
    BY <1>1, <1>5, JoinSteps, Zenon
  <2> DEFINE T == {k \in 0..n : k # 0 => g[k+1] = ss[1] \o f[k]}
  <2>0. 0 \in 0..n
    BY <1>1
  <2>2. 0 \in T /\ T \subseteq 0..n
    BY <2>0, Zenon
  <2>3. ASSUME NEW k \in 0..(n-1), k \in T PROVE k + 1 \in T
    <3>1. k + 1 \in 1..n /\ k + 1 \in 0..n /\ tt[k+1] = ss[(k+1)+1] /\ k + 1 \in 1..(Len(ss)-1)
        BY <1>1
    <3>2. g[(k+1)+1] = g[k+1] \o ss[(k+1)+1]
        BY <3>1, <1>3, Zenon DEF Joins
    <3>3. CASE k = 0
      <4>1. g[1] = ss[1] /\ f[1] = tt[1]
        BY <1>3, <2>1 DEF Joins
      <4>2. k + 1 = 1
        BY <3>3
      <4>3. g[(k+1)+1] = ss[1] \o f[k+1]
        BY <3>1, <3>2, <4>1, <4>2, Zenon
      <4> QED
        BY <3>1, <4>3, Zenon
    <3>4. CASE k # 0
      <4>0. k \in 1..(Len(tt)-1) /\ k \in 1..Len(tt)
        BY <3>4
      <4>1. k \in 1..(Len(tt)-1) /\ k \in 1..Len(tt) /\ g[k+1] = ss[1] \o f[k]
        BY <4>0, <3>4, <2>3, Zenon
      <4>2. f[k+1] = f[k] \o tt[k+1] /\ f[k] \in Seq(Event)
        BY <4>1, <2>1 DEF Joins
      <4>3. tt[k+1] \in Seq(Event)
        BY <1>1, <3>1, ElementOfSeq, Zenon
      <4>4. (ss[1] \o f[k]) \o tt[k+1] = ss[1] \o (f[k] \o tt[k+1])
        BY <1>2, <4>2, <4>3, ConcatAssoc, Zenon
      <4> QED
        BY <3>1, <3>2, <4>1, <4>2, <4>4
    <3> QED
        BY <3>3, <3>4
  <2>4. T = 0..n
    <3>1. \A k \in 0..(n-1) : k \in T => k + 1 \in T
        BY <2>3
    <3> HIDE DEF T
    <3> QED
        BY <1>1, <2>2, <3>1, Induction
  <2>5. n \in 0..n /\ n # 0
    BY <1>1, <1>5
  <2>6. g[n+1] = ss[1] \o f[n]
    BY <2>4, <2>5, Zenon
  <2> QED
    BY <2>6, <2>1, <1>1, <1>3
<1> QED
    BY <1>4, <1>5

-----------------------------------------------------------------------------
(***************************************************************************)
(* The last word, when events come and go.                                 *)
(***************************************************************************)

\* Nothing on its way.
LEMMA LastWordEmpty ==
    ASSUME NEW h, NEW n, NEW k
    PROVE  LastWord(h, <<>>, n, k) <=> h[n] = k
    BY DEF LastWord

\* One event.
LEMMA LastWordOne ==
    ASSUME NEW h \in Held, NEW e \in Event, NEW n \in Names
    PROVE  LastWord(h, <<e>>, n, Told(h, e)[n])
<1>1. Len(<<e>>) = 1 /\ <<e>>[1] = e /\ 1 \in 1..1 /\ (1+1)..1 = {} /\ 1..1 = {1}
    OBVIOUS
<1>2. IF About(e, n) THEN Tells(e, n, Told(h, e)[n]) ELSE Told(h, e)[n] = h[n]
    BY ToldFacts, Zenon
<1> QED
    BY <1>1, <1>2 DEF LastWord

\* More events after the ones on their way.
LEMMA LastWordConcat ==
    ASSUME NEW h, NEW g, NEW s \in Seq(Event), NEW t \in Seq(Event), NEW n, NEW k,
           LastWord(h, s, n, g[n]), LastWord(g, t, n, k)
    PROVE  LastWord(h, s \o t, n, k)
<1> DEFINE u == s \o t
<1>1. /\ u \in Seq(Event) /\ Len(u) = Len(s) + Len(t) /\ Len(s) \in Nat /\ Len(t) \in Nat
      /\ \A i \in 1..Len(s) : u[i] = s[i]
      /\ \A i \in 1..Len(t) : u[Len(s)+i] = t[i]
    OBVIOUS
<1>2. \A j \in 1..Len(u) : j \in 1..Len(s) \/ j - Len(s) \in 1..Len(t)
    BY <1>1
<1>3. \A j \in 1..Len(u) : j \notin 1..Len(s) => u[j] = t[j - Len(s)]
    BY <1>1
<1> HIDE DEF u
<1>4. CASE \A j \in 1..Len(t) : ~ About(t[j], n)
  <2>1. g[n] = k
    <3>1. \A i \in 1..Len(t) : ~ Tells(t[i], n, k)
      <4> SUFFICES ASSUME NEW i \in 1..Len(t), Tells(t[i], n, k) PROVE FALSE
        OBVIOUS
      <4>1. t[i] \in Event
        OBVIOUS
      <4> QED
        BY <4>1, <1>4, TellsFacts
    <3> QED
        BY <3>1 DEF LastWord
  <2>2. CASE h[n] = k /\ \A j \in 1..Len(s) : ~ About(s[j], n)
    <3>1. \A j \in 1..Len(u) : ~ About(u[j], n)
        BY <1>1, <1>2, <1>3, <1>4, <2>2
    <3> QED
        BY <2>2, <3>1 DEF LastWord, u
  <2>3. CASE \E i \in 1..Len(s) : Tells(s[i], n, k) /\ \A j \in (i+1)..Len(s) : ~ About(s[j], n)
    <3>1. PICK i \in 1..Len(s) : Tells(s[i], n, k) /\ \A j \in (i+1)..Len(s) : ~ About(s[j], n)
        BY <2>3
    <3>2. i \in 1..Len(u) /\ Tells(u[i], n, k)
        BY <3>1, <1>1
    <3>3. ASSUME NEW j \in (i+1)..Len(u) PROVE ~ About(u[j], n)
      <4>1. CASE j \in 1..Len(s)
        BY <4>1, <3>1, <1>1
      <4>2. CASE j \notin 1..Len(s)
        <5>1. j \in 1..Len(u) /\ j - Len(s) \in 1..Len(t)
            BY <4>2, <1>1
        <5> QED
            BY <5>1, <4>2, <1>3, <1>4
      <4> QED
        BY <4>1, <4>2
    <3> QED
        BY <3>2, <3>3 DEF LastWord, u
  <2> QED
    BY <2>1, <2>2, <2>3 DEF LastWord
<1>5. CASE ~ \A j \in 1..Len(t) : ~ About(t[j], n)
  <2>1. PICK i \in 1..Len(t) : Tells(t[i], n, k) /\ \A j \in (i+1)..Len(t) : ~ About(t[j], n)
    BY <1>5 DEF LastWord
  <2>2. Len(s) + i \in 1..Len(u) /\ Tells(u[Len(s)+i], n, k)
    BY <2>1, <1>1
  <2>3. ASSUME NEW j \in (Len(s)+i+1)..Len(u) PROVE ~ About(u[j], n)
    <3>1. j \in 1..Len(u) /\ j \notin 1..Len(s) /\ j - Len(s) \in (i+1)..Len(t)
        BY <1>1
    <3> QED
        BY <3>1, <2>1, <1>3
  <2> QED
    BY <2>2, <2>3 DEF LastWord, u
<1> QED
    BY <1>4, <1>5

\* There always is a last word.
LEMMA SomeLastWord ==
    ASSUME NEW h \in Held, NEW s \in Seq(Event)
    PROVE  \E g \in Held : \A n \in Names : LastWord(h, s, n, g[n])
    BY FoldIsLastWord, Zenon

\* The first event is taken.
LEMMA LastWordTail ==
    ASSUME NEW h \in Held, NEW s \in Seq(Event), s # <<>>, NEW n \in Names, NEW k,
           LastWord(h, s, n, k)
    PROVE  LastWord(Told(h, s[1]), Tail(s), n, k)
<1>1. s[1] \in Event /\ Tail(s) \in Seq(Event) /\ s = <<s[1]>> \o Tail(s) /\ <<s[1]>> \in Seq(Event)
    OBVIOUS
<1>2. Told(h, s[1]) \in Held
    BY <1>1, ToldFacts, Zenon
<1>3. PICK g \in Held : \A m \in Names : LastWord(Told(h, s[1]), Tail(s), m, g[m])
    BY <1>1, <1>2, SomeLastWord
<1>4. LastWord(h, <<s[1]>>, n, Told(h, s[1])[n])
    BY <1>1, LastWordOne
<1>5. LastWord(h, <<s[1]>> \o Tail(s), n, g[n])
  <2>1. LastWord(Told(h, s[1]), Tail(s), n, g[n])
    BY <1>3
  <2> QED
    BY <1>1, <1>4, <2>1, LastWordConcat, Zenon
<1>6. g[n] = k
    BY <1>1, <1>5, OneLastWord, Zenon
<1> QED
    BY <1>3, <1>6
\* Every event about n tells something that would not be held otherwise.
NewsOf(h, s, n) ==
    \A i \in 1..Len(s) : \A k \in MaybeKey :
        LastWord(h, SubSeq(s, 1, i - 1), n, k) => ~ Tells(s[i], n, k)

\* s takes whoever holds h to k for the name n, with no event twice.
Leads(h, s, n, k) == LastWord(h, s, n, k) /\ NewsOf(h, s, n)

\* Nothing on its way.
LEMMA LeadsEmpty ==
    ASSUME NEW h, NEW n, NEW k
    PROVE  Leads(h, <<>>, n, k) <=> h[n] = k
    BY LastWordEmpty DEF Leads, NewsOf

\* The first event is taken.
LEMMA LeadsTail ==
    ASSUME NEW h \in Held, NEW s \in Seq(Event), s # <<>>, NEW n \in Names, NEW k, Leads(h, s, n, k)
    PROVE  Leads(Told(h, s[1]), Tail(s), n, k)
<1> DEFINE t == Tail(s)
           g == Told(h, s[1])
<1>1. s[1] \in Event /\ <<s[1]>> \in Seq(Event) /\ t \in Seq(Event) /\ Len(s) = Len(t) + 1 /\ Len(t) \in Nat
    OBVIOUS
<1>0. LastWord(g, t, n, k)
    BY LastWordTail DEF Leads
<1> SUFFICES ASSUME NEW i \in 1..Len(t), NEW l \in MaybeKey,
                    LastWord(g, SubSeq(t, 1, i - 1), n, l)
             PROVE  ~ Tells(t[i], n, l)
    BY <1>0 DEF NewsOf, Leads
<1>2. i + 1 \in 1..Len(s) /\ t[i] = s[i+1] /\ (i + 1) - 1 = i
    OBVIOUS
<1>3. SubSeq(t, 1, i - 1) \in Seq(Event) /\ SubSeq(s, 1, i) = <<s[1]>> \o SubSeq(t, 1, i - 1)
  <2>1. SubSeq(t, 1, i - 1) \in Seq(Event) /\ SubSeq(s, 1, i) \in Seq(Event)
    OBVIOUS
  <2> QED
    BY <2>1
<1>4. LastWord(h, <<s[1]>>, n, g[n])
    BY <1>1, LastWordOne
<1>5. LastWord(h, SubSeq(s, 1, (i + 1) - 1), n, l)
  <2> HIDE DEF g, t
  <2>1. LastWord(h, <<s[1]>> \o SubSeq(t, 1, i - 1), n, l)
    BY <1>1, <1>3, <1>4, LastWordConcat, Zenon
  <2> QED
    BY <2>1, <1>2, <1>3
<1> QED
    BY <1>2, <1>5 DEF NewsOf, Leads

\* News after news.
LEMMA LeadsConcat ==
    ASSUME NEW h \in Held, NEW g \in Held, NEW s \in Seq(Event), NEW t \in Seq(Event), NEW n \in Names, NEW k,
           Leads(h, s, n, g[n]), Leads(g, t, n, k)
    PROVE  Leads(h, s \o t, n, k)
<1> DEFINE u == s \o t
<1>1. /\ u \in Seq(Event) /\ Len(u) = Len(s) + Len(t) /\ Len(s) \in Nat /\ Len(t) \in Nat
      /\ \A i \in 1..Len(s) : u[i] = s[i]
      /\ \A i \in 1..Len(t) : u[Len(s)+i] = t[i]
    OBVIOUS
<1>0. LastWord(h, u, n, k)
    BY LastWordConcat DEF Leads
<1> SUFFICES ASSUME NEW i \in 1..Len(u), NEW l \in MaybeKey,
                    LastWord(h, SubSeq(u, 1, i - 1), n, l)
             PROVE  ~ Tells(u[i], n, l)
    BY <1>0 DEF NewsOf, Leads
<1>2. CASE i \in 1..Len(s)
  <2>1. SubSeq(u, 1, i - 1) = SubSeq(s, 1, i - 1)
    BY <1>2
  <2> QED
    BY <2>1, <1>1, <1>2 DEF NewsOf, Leads
<1>3. CASE i \notin 1..Len(s)
  <2> DEFINE j == i - Len(s)
             v == SubSeq(t, 1, j - 1)
  <2>1. j \in 1..Len(t) /\ u[i] = t[j]
    BY <1>1, <1>3
  <2>2. v \in Seq(Event) /\ SubSeq(u, 1, i - 1) = s \o v
    BY <1>3, <2>1
  <2> HIDE DEF u, v
  <2>3. PICK f \in Held : \A m \in Names : LastWord(g, v, m, f[m])
    BY <2>2, SomeLastWord, Zenon
  <2>4. LastWord(h, s \o v, n, f[n])
    BY <2>2, <2>3, LastWordConcat, Zenon DEF Leads
  <2>5. f[n] = l
    <3>1. s \o v \in Seq(Event)
        BY <2>2
    <3> QED
        BY <3>1, <2>2, <2>4, OneLastWord, Zenon
  <2>6. LastWord(g, v, n, l)
    BY <2>3, <2>5
  <2> QED
    BY <2>1, <2>6 DEF NewsOf, Leads, v
<1> QED
    BY <1>2, <1>3

\* Events that tell of n at most once, and only if it changed.
LEMMA OnceLeads ==
    ASSUME NEW g \in Held, NEW s \in Seq(Event), NEW n \in Names, NEW l,
           \A i \in 1..Len(s) : About(s[i], n) => Tells(s[i], n, l) /\ g[n] # l,
           \A i, j \in 1..Len(s) : About(s[i], n) /\ About(s[j], n) => i = j,
           g[n] # l => \E i \in 1..Len(s) : About(s[i], n)
    PROVE  Leads(g, s, n, l)
<1>0. \A i \in 1..Len(s) : s[i] \in Event
    OBVIOUS
<1>1. LastWord(g, s, n, l)
  <2>1. CASE g[n] = l
    <3>1. \A j \in 1..Len(s) : ~ About(s[j], n)
        BY <2>1
    <3> QED
        BY <2>1, <3>1 DEF LastWord
  <2>2. CASE g[n] # l
    <3>1. PICK i \in 1..Len(s) : About(s[i], n)
        BY <2>2
    <3>2. Tells(s[i], n, l)
        BY <3>1
    <3>3. \A j \in (i+1)..Len(s) : j \in 1..Len(s) /\ j # i
        OBVIOUS
    <3>4. \A j \in (i+1)..Len(s) : ~ About(s[j], n)
        BY <3>1, <3>3
    <3> QED
        BY <3>2, <3>4 DEF LastWord
  <2> QED
    BY <2>1, <2>2
<1>2. ASSUME NEW i \in 1..Len(s), NEW k \in MaybeKey,
             LastWord(g, SubSeq(s, 1, i - 1), n, k), Tells(s[i], n, k)
      PROVE  FALSE
  <2> DEFINE t == SubSeq(s, 1, i - 1)
  <2>1. t \in Seq(Event) /\ Len(t) = i - 1 /\ \A j \in 1..(i-1) : t[j] = s[j] /\ j \in 1..Len(s) /\ j # i
    OBVIOUS
  <2>2. About(s[i], n)
    BY <1>0, <1>2, TellsFacts
  <2>3. k = l /\ g[n] # l
    BY <2>2, <1>0, <1>2, TellsFacts
  <2>4. \A j \in 1..Len(t) : ~ About(t[j], n)
    BY <2>1, <2>2
  <2>5. LastWord(g, t, n, k)
    BY <1>2
  <2> HIDE DEF t
  <2>6. \A j \in 1..Len(t) : ~ Tells(t[j], n, k)
    BY <2>4 DEF Tells, About
  <2> QED
    BY <2>3, <2>5, <2>6 DEF LastWord
<1> QED
    BY <1>1, <1>2 DEF Leads, NewsOf

\* One event more.
LEMMA LeadsOne ==
    ASSUME NEW g \in Held, NEW s \in Seq(Event), NEW n \in Names, NEW k \in MaybeKey, Leads(g, s, n, k),
           NEW e \in Event, NEW l, IF About(e, n) THEN Tells(e, n, l) /\ l # k ELSE l = k
    PROVE  Leads(g, Append(s, e), n, l)
<1> DEFINE h == [o \in Names |-> k]
           t == <<e>>
<1>1. t \in Seq(Event) /\ Len(t) = 1 /\ t[1] = e /\ 1..Len(t) = {1} /\ Append(s, e) = s \o t
    OBVIOUS
<1>2. h \in Held /\ h[n] = k
    BY DEF Held
<1> HIDE DEF h, t
<1>3. Leads(h, t, n, l)
  <2>1. \A i \in 1..Len(t) : About(t[i], n) => Tells(t[i], n, l) /\ h[n] # l
    BY <1>1, <1>2
  <2>2. \A i, j \in 1..Len(t) : About(t[i], n) /\ About(t[j], n) => i = j
    BY <1>1
  <2>3. h[n] # l => \E i \in 1..Len(t) : About(t[i], n)
    BY <1>1, <1>2
  <2> QED
    BY <1>1, <1>2, <2>1, <2>2, <2>3, OnceLeads
<1> QED
  <2>1. Leads(g, s, n, h[n])
    BY <1>2
  <2>2. Leads(g, s \o t, n, l)
    BY <1>1, <1>2, <1>3, <2>1, LeadsConcat
  <2> QED
    BY <1>1, <2>2

\* Events about other names.
LEMMA LeadsAside ==
    ASSUME NEW g \in Held, NEW s \in Seq(Event), NEW n \in Names, \A i \in 1..Len(s) : ~ About(s[i], n)
    PROVE  Leads(g, s, n, g[n])
    BY OnceLeads

\* A synced event tells nothing.
LEMMA LeadsSynced ==
    ASSUME NEW h \in Held, NEW w \in Seq(Event), NEW n \in Names, NEW k, Leads(h, w, n, k)
    PROVE  Leads(h, <<Synced>> \o w, n, k)
<1>1. Synced \in Event /\ <<Synced>> \in Seq(Event) /\ Synced.typ = "synced"
    BY DEF Event, Synced
<1>2. \A i \in 1..Len(<<Synced>>) : ~ About(<<Synced>>[i], n)
    BY <1>1 DEF About
<1>3. Leads(h, <<Synced>>, n, h[n])
    BY <1>1, <1>2, LeadsAside
<1> QED
    BY <1>1, <1>3, LeadsConcat, Zenon


-----------------------------------------------------------------------------
(***************************************************************************)
(* Frames.                                                                 *)
(***************************************************************************)
Ref == [name : Names, key : Keys]
Hint == [node : Nodes, name : Names, key : MaybeKey, ver : 1..MaxCommits]
Batch == [known : [Names -> Row], refs : Seq(Ref), deleted : Seq(Names)]
ChangesFrame == [typ : {"changes"}, refs : Seq(Ref), deleted : Seq(Names)]
Frame == ChangesFrame \cup {Synced} \cup {Err(code) : code \in {"stale", "bad", "refused"}}

\* The fold of ApplyHint over s, for every set of positions.
Draining(f, h, s, n) ==
    f = [t \in SUBSET (1..n) |-> IF t = {} THEN h ELSE ApplyHint(f[t \ {Max(t)}], s[Max(t)])]
Drainings(h, s) == CHOOSE f : Draining(f, h, s, Len(s))

\* That is what the library's fold says.
LEMMA DrainUnfolds ==
    ASSUME NEW h, NEW s \in Seq(Hint)
    PROVE  FoldLeft(ApplyHint, h, s) = Drainings(h, s)[1..Len(s)]
<1>1. DOMAIN s = 1..Len(s)
    OBVIOUS
<1>2. FoldLeft(ApplyHint, h, s)
      = (CHOOSE f : f = [t \in SUBSET DOMAIN s |->
            IF t = {} THEN h ELSE ApplyHint(f[t \ {Max(t)}], s[Max(t)])])[DOMAIN s]
    BY DEF FoldLeft, MapThenFoldSet
<1> QED
    BY <1>1, <1>2 DEF Drainings, Draining

\* The function is there.
LEMMA DrainExists ==
    ASSUME NEW h, NEW s \in Seq(Hint)
    PROVE  Draining(Drainings(h, s), h, s, Len(s))
<1> DEFINE T == {k \in 0..Len(s) : \E f : Draining(f, h, s, k)}
<1>1. 0 \in T
  <2> DEFINE f == [t \in SUBSET (1..0) |-> h]
  <2>1. SUBSET (1..0) = {{}}
    OBVIOUS
  <2>2. Draining(f, h, s, 0)
    BY <2>1 DEF Draining
  <2> QED
    BY <2>2
<1>2. ASSUME NEW k \in 0..(Len(s)-1), k \in T PROVE k + 1 \in T
  <2>1. PICK f : Draining(f, h, s, k)
    BY <1>2
  <2> DEFINE g == [t \in SUBSET (1..(k+1)) |->
                    IF k + 1 \in t THEN ApplyHint(f[t \ {k+1}], s[k+1]) ELSE f[t]]
  <2>2. ASSUME NEW t \in SUBSET (1..(k+1)), k + 1 \in t
        PROVE  g[t] = ApplyHint(g[t \ {Max(t)}], s[Max(t)])
    <3>1. Max(t) = k + 1
        BY <2>2, MaxTop
    <3>2. t \ {k+1} \in SUBSET (1..(k+1)) /\ k + 1 \notin t \ {k+1}
        OBVIOUS
    <3>3. g[t \ {k+1}] = f[t \ {k+1}]
        BY <3>2
    <3> QED
        BY <3>1, <3>3, <2>2
  <2>3. ASSUME NEW t \in SUBSET (1..(k+1)), k + 1 \notin t, t # {}
        PROVE  g[t] = ApplyHint(g[t \ {Max(t)}], s[Max(t)])
    <3>0. \A x \in t : x \in 1..k
        BY <2>3
    <3>1. t \in SUBSET (1..k) /\ t \ {Max(t)} \in SUBSET (1..(k+1)) /\ k + 1 \notin t \ {Max(t)}
        BY <3>0, <2>3, Zenon
    <3>2. g[t] = f[t] /\ g[t \ {Max(t)}] = f[t \ {Max(t)}]
        BY <3>1, <2>3
    <3>3. f[t] = ApplyHint(f[t \ {Max(t)}], s[Max(t)])
        BY <3>1, <2>3, <2>1, Zenon DEF Draining
    <3> QED
        BY <3>2, <3>3
  <2>4. g[{}] = h
    BY <2>1 DEF Draining
  <2>5. \A t \in SUBSET (1..(k+1)) :
            g[t] = IF t = {} THEN h ELSE ApplyHint(g[t \ {Max(t)}], s[Max(t)])
    BY <2>2, <2>3, <2>4
  <2>6. g = [t \in SUBSET (1..(k+1)) |-> IF t = {} THEN h ELSE ApplyHint(g[t \ {Max(t)}], s[Max(t)])]
    BY <2>5
  <2>7. Draining(g, h, s, k + 1)
    BY <2>6 DEF Draining
  <2> QED
    BY <2>7
<1>3. T = 0..Len(s)
  <2>1. T \subseteq 0..Len(s) /\ Len(s) \in Nat
    OBVIOUS
  <2>2. \A k \in 0..(Len(s)-1) : k \in T => k + 1 \in T
    BY <1>2
  <2> HIDE DEF T
  <2> QED
    BY <1>1, <2>1, <2>2, Induction
<1>4. \E f : Draining(f, h, s, Len(s))
  <2>1. Len(s) \in 0..Len(s)
    OBVIOUS
  <2> QED
    BY <1>3, <2>1, Zenon
<1> QED
    BY <1>4 DEF Drainings

\* The batch after the first k hints.
Drained(h, s, k) == Drainings(h, s)[1..k]

\* The hints are applied one after the other.
LEMMA DrainSteps ==
    ASSUME NEW h, NEW s \in Seq(Hint)
    PROVE  /\ FoldLeft(ApplyHint, h, s) = Drained(h, s, Len(s))
           /\ Drained(h, s, 0) = h
           /\ \A k \in 0..(Len(s)-1) : Drained(h, s, k + 1) = ApplyHint(Drained(h, s, k), s[k+1])
<1>1. Draining(Drainings(h, s), h, s, Len(s))
    BY DrainExists
<1>2. Drained(h, s, 0) = h
  <2>1. 1..0 = {} /\ {} \in SUBSET (1..Len(s))
    OBVIOUS
  <2> QED
    BY <1>1, <2>1 DEF Draining, Drained
<1>3. ASSUME NEW k \in 0..(Len(s)-1)
      PROVE  Drained(h, s, k + 1) = ApplyHint(Drained(h, s, k), s[k+1])
  <2>1. 1..(k+1) \in SUBSET (1..Len(s)) /\ 1..(k+1) # {} /\ (1..(k+1)) \ {k+1} = 1..k
    OBVIOUS
  <2>2. Max(1..(k+1)) = k + 1
    BY MaxTop
  <2> QED
    BY <1>1, <2>1, <2>2 DEF Draining, Drained
<1> QED
    BY <1>2, <1>3, DrainUnfolds DEF Drained

\* A batch stays one.
LEMMA ApplyHintType ==
    ASSUME NEW acc \in Batch, NEW q \in Hint
    PROVE  ApplyHint(acc, q) \in Batch
<1>1. acc.known \in [Names -> Row] /\ acc.refs \in Seq(Ref) /\ acc.deleted \in Seq(Names)
    BY DEF Batch
<1>2. q.name \in Names /\ q.key \in MaybeKey /\ q.ver \in Nat
    BY WatchAssumption DEF Hint
<1>3. [acc.known EXCEPT ![q.name] = [key |-> q.key, ver |-> q.ver]] \in [Names -> Row]
    BY <1>1, <1>2 DEF Row
<1>4. q.key \notin {NoKey, acc.known[q.name].key}
        => Append(acc.refs, [name |-> q.name, key |-> q.key]) \in Seq(Ref)
  <2>1. q.key # NoKey => [name |-> q.name, key |-> q.key] \in Ref
    BY <1>2 DEF Ref, MaybeKey
  <2> QED
    BY <1>1, <2>1
<1>5. Append(acc.deleted, q.name) \in Seq(Names)
    BY <1>1, <1>2
<1> QED
    BY <1>1, <1>3, <1>4, <1>5 DEF ApplyHint, Batch

\* Draining hints makes a batch.
LEMMA DrainType ==
    ASSUME NEW h \in Batch, NEW s \in Seq(Hint)
    PROVE  \A k \in 0..Len(s) : Drained(h, s, k) \in Batch
<1>0. /\ Drained(h, s, 0) = h
      /\ \A k \in 0..(Len(s)-1) : Drained(h, s, k + 1) = ApplyHint(Drained(h, s, k), s[k+1])
    BY DrainSteps, Zenon
<1> DEFINE T == {k \in 0..Len(s) : Drained(h, s, k) \in Batch}
<1>1. 0 \in T /\ T \subseteq 0..Len(s) /\ Len(s) \in Nat
    BY <1>0
<1>2. ASSUME NEW k \in 0..(Len(s)-1), k \in T PROVE k + 1 \in T
  <2>1. s[k+1] \in Hint /\ k + 1 \in 0..Len(s) /\ Drained(h, s, k) \in Batch
    BY <1>2
  <2>2. ApplyHint(Drained(h, s, k), s[k+1]) \in Batch
    BY <2>1, ApplyHintType, Zenon
  <2> QED
    BY <2>1, <2>2, <1>0
<1>3. T = 0..Len(s)
  <2>1. \A k \in 0..(Len(s)-1) : k \in T => k + 1 \in T
    BY <1>2
  <2> HIDE DEF T
  <2> QED
    BY <1>1, <2>1, Induction
<1> QED
    BY <1>3, Zenon

\* A set as a sequence.
LEMMA SetToSeqFacts ==
    ASSUME NEW S, IsFiniteSet(S)
    PROVE  /\ SetToSeq(S) \in Seq(S)
           /\ \A x \in S : \E i \in 1..Len(SetToSeq(S)) : SetToSeq(S)[i] = x
           /\ \A i, j \in 1..Len(SetToSeq(S)) : SetToSeq(S)[i] = SetToSeq(S)[j] => i = j
<1> DEFINE n == Cardinality(S)
           f == SetToSeq(S)
<1>1. n \in Nat /\ ExistsBijection(1..n, S)
    BY FS_CardinalityType
<1>2. \E g \in [1..n -> S] : IsInjective(g)
    BY <1>1 DEF ExistsBijection, Bijection, Injection, IsInjective
<1>3. f \in [1..n -> S] /\ IsInjective(f)
    BY <1>2 DEF SetToSeq
<1> HIDE DEF f
<1>4. f \in Injection(1..n, S)
    BY <1>3 DEF Injection, IsInjective
<1>5. Cardinality(1..n) = n
    BY <1>1, FS_Interval
<1>6. f \in Surjection(1..n, S)
    BY <1>4, <1>5, FS_Injection
<1>7. f \in Seq(S) /\ Len(f) = n
    BY <1>1, <1>3
<1>8. \A x \in S : \E i \in 1..n : f[i] = x
    BY <1>6 DEF Surjection
<1>9. \A i, j \in 1..n : f[i] = f[j] => i = j
    BY <1>3 DEF IsInjective
<1> QED
    BY <1>7, <1>8, <1>9 DEF f

\* Two sequences of events put together.
LEMMA ConcatFacts ==
    ASSUME NEW a \in Seq(Event), NEW b \in Seq(Event)
    PROVE  /\ a \o b \in Seq(Event) /\ Len(a \o b) = Len(a) + Len(b)
           /\ \A i \in 1..Len(a) : (a \o b)[i] = a[i]
           /\ \A i \in 1..Len(b) : (a \o b)[Len(a) + i] = b[i]
    OBVIOUS

\* The events of references written.
LEMMA WrittenFacts ==
    ASSUME NEW r \in Seq(Ref)
    PROVE  /\ Written(r) \in Seq(Event) /\ Len(Written(r)) = Len(r)
           /\ \A i \in 1..Len(r) :
                /\ Written(r)[i] = [typ |-> "change", name |-> r[i].name, key |-> r[i].key]
                /\ Written(r)[i].typ = "change" /\ Written(r)[i].name = r[i].name
                /\ Written(r)[i].key = r[i].key
<1>0. DOMAIN r = 1..Len(r) /\ Len(r) \in Nat
    OBVIOUS
<1>1. \A i \in 1..Len(r) : Written(r)[i] = [typ |-> "change", name |-> r[i].name, key |-> r[i].key]
    BY <1>0 DEF Written
<1>2. ASSUME NEW i \in 1..Len(r) PROVE Written(r)[i] \in Event
  <2>1. r[i] \in Ref
    OBVIOUS
  <2>2. [typ |-> "change", name |-> r[i].name, key |-> r[i].key] \in Event
    BY <2>1 DEF Event, Ref
  <2> QED
    BY <1>1, <2>2
<1>3. Written(r) \in [1..Len(r) -> Event]
    BY <1>0, <1>2 DEF Written
<1>4. ASSUME NEW i \in 1..Len(r)
      PROVE  /\ Written(r)[i].typ = "change" /\ Written(r)[i].name = r[i].name
             /\ Written(r)[i].key = r[i].key
  <2> DEFINE e == Written(r)[i]
  <2>1. e = [typ |-> "change", name |-> r[i].name, key |-> r[i].key]
    BY <1>1
  <2> HIDE DEF e
  <2>2. e.typ = "change" /\ e.name = r[i].name /\ e.key = r[i].key
    BY <2>1
  <2> QED
    BY <2>2 DEF e
<1> QED
    BY <1>0, <1>1, <1>3, <1>4, IsASeq, LenProperties

\* The events of names deleted.
LEMMA GoneFacts ==
    ASSUME NEW d \in Seq(Names)
    PROVE  /\ Gone(d) \in Seq(Event) /\ Len(Gone(d)) = Len(d)
           /\ \A i \in 1..Len(d) :
                /\ Gone(d)[i] = [typ |-> "deleted", name |-> d[i]]
                /\ Gone(d)[i].typ = "deleted" /\ Gone(d)[i].name = d[i]
<1>0. DOMAIN d = 1..Len(d) /\ Len(d) \in Nat
    OBVIOUS
<1>1. \A i \in 1..Len(d) : Gone(d)[i] = [typ |-> "deleted", name |-> d[i]]
    BY <1>0 DEF Gone
<1>2. ASSUME NEW i \in 1..Len(d) PROVE Gone(d)[i] \in Event
  <2>1. d[i] \in Names
    OBVIOUS
  <2>2. [typ |-> "deleted", name |-> d[i]] \in Event
    BY <2>1 DEF Event
  <2> QED
    BY <1>1, <2>2
<1>3. Gone(d) \in [1..Len(d) -> Event]
    BY <1>0, <1>2 DEF Gone
<1>4. ASSUME NEW i \in 1..Len(d)
      PROVE  Gone(d)[i].typ = "deleted" /\ Gone(d)[i].name = d[i]
  <2> DEFINE e == Gone(d)[i]
  <2>1. e = [typ |-> "deleted", name |-> d[i]]
    BY <1>1
  <2> HIDE DEF e
  <2>2. e.typ = "deleted" /\ e.name = d[i]
    BY <2>1
  <2> QED
    BY <2>2 DEF e
<1> QED
    BY <1>0, <1>1, <1>3, <1>4, IsASeq, LenProperties

\* No references, no names, no events.
LEMMA NothingTold ==
    Written(<<>>) = <<>> /\ Gone(<<>>) = <<>>
    BY DEF Written, Gone

\* References written one after the other.
LEMMA WrittenConcat ==
    ASSUME NEW q \in Seq(Ref), NEW r \in Seq(Ref)
    PROVE  Written(q \o r) = Written(q) \o Written(r)
<1> DEFINE u == q \o r
<1>1. /\ u \in Seq(Ref) /\ Len(u) = Len(q) + Len(r) /\ Len(q) \in Nat /\ Len(r) \in Nat
      /\ \A i \in 1..Len(q) : u[i] = q[i]
      /\ \A i \in 1..Len(r) : u[Len(q) + i] = r[i]
    OBVIOUS
<1> HIDE DEF u
<1> DEFINE a == Written(q)
           b == Written(r)
           c == Written(u)
<1>2. /\ a \in Seq(Event) /\ Len(a) = Len(q)
      /\ \A i \in 1..Len(q) : a[i] = [typ |-> "change", name |-> q[i].name, key |-> q[i].key]
    BY WrittenFacts
<1>3. /\ b \in Seq(Event) /\ Len(b) = Len(r)
      /\ \A i \in 1..Len(r) : b[i] = [typ |-> "change", name |-> r[i].name, key |-> r[i].key]
    BY WrittenFacts
<1>4. /\ c \in Seq(Event) /\ Len(c) = Len(u)
      /\ \A i \in 1..Len(u) : c[i] = [typ |-> "change", name |-> u[i].name, key |-> u[i].key]
    BY <1>1, WrittenFacts
<1> HIDE DEF a, b, c
<1>5. /\ a \o b \in Seq(Event) /\ Len(a \o b) = Len(u)
      /\ \A i \in 1..Len(q) : (a \o b)[i] = a[i]
      /\ \A i \in 1..Len(r) : (a \o b)[Len(q) + i] = b[i]
  <2>1. /\ a \o b \in Seq(Event) /\ Len(a \o b) = Len(a) + Len(b)
        /\ \A i \in 1..Len(a) : (a \o b)[i] = a[i]
        /\ \A i \in 1..Len(b) : (a \o b)[Len(a) + i] = b[i]
    BY <1>2, <1>3, ConcatFacts, Zenon
  <2> QED
    BY <1>1, <1>2, <1>3, <2>1, Zenon
<1>6. ASSUME NEW i \in 1..Len(u) PROVE c[i] = (a \o b)[i]
  <2>1. CASE i \in 1..Len(q)
    BY <2>1, <1>1, <1>2, <1>4, <1>5
  <2>2. CASE i \notin 1..Len(q)
    <3> DEFINE j == i - Len(q)
    <3>1. j \in 1..Len(r) /\ i = Len(q) + j
        BY <2>2, <1>1
    <3> HIDE DEF j
    <3>2. u[i] = r[j] /\ (a \o b)[i] = b[j]
        BY <3>1, <1>1, <1>5
    <3> QED
        BY <3>1, <3>2, <1>3, <1>4
  <2> QED
    BY <2>1, <2>2
<1>7. c = a \o b
    BY <1>4, <1>5, <1>6, SeqEqual
<1> QED
    BY <1>7 DEF a, b, c, u

\* One name more.
LEMMA GoneAppend ==
    ASSUME NEW d \in Seq(Names), NEW n \in Names
    PROVE  Gone(Append(d, n)) = Append(Gone(d), [typ |-> "deleted", name |-> n])
<1> DEFINE u == Append(d, n)
           e == [typ |-> "deleted", name |-> n]
           a == Gone(d)
           c == Gone(u)
<1>1. /\ u \in Seq(Names) /\ Len(u) = Len(d) + 1 /\ Len(d) \in Nat /\ u[Len(d) + 1] = n
      /\ \A i \in 1..Len(d) : u[i] = d[i]
    OBVIOUS
<1>2. a \in Seq(Event) /\ Len(a) = Len(d) /\ \A i \in 1..Len(d) : a[i] = [typ |-> "deleted", name |-> d[i]]
    BY GoneFacts
<1> HIDE DEF u
<1>3. c \in Seq(Event) /\ Len(c) = Len(u) /\ \A i \in 1..Len(u) : c[i] = [typ |-> "deleted", name |-> u[i]]
    BY <1>1, GoneFacts
<1>4. e \in Event
    BY DEF Event
<1> HIDE DEF a, c
<1>5. /\ Append(a, e) \in Seq(Event) /\ Len(Append(a, e)) = Len(d) + 1 /\ Append(a, e)[Len(d) + 1] = e
      /\ \A i \in 1..Len(d) : Append(a, e)[i] = a[i]
  <2> HIDE DEF e
  <2> QED
    BY <1>1, <1>2, <1>4, AppendProperties
<1>6. ASSUME NEW i \in 1..Len(u) PROVE c[i] = Append(a, e)[i]
  <2>1. i \in 1..Len(d) \/ i = Len(d) + 1
    BY <1>1
  <2>2. CASE i \in 1..Len(d)
    BY <2>2, <1>1, <1>2, <1>3, <1>5
  <2>3. CASE i = Len(d) + 1
    BY <2>3, <1>1, <1>3, <1>5
  <2> QED
    BY <2>1, <2>2, <2>3
<1>7. c = Append(a, e)
  <2> HIDE DEF e
  <2> QED
    BY <1>1, <1>3, <1>5, <1>6, SeqEqual
<1> QED
    BY <1>7 DEF a, c, u

\* The events of a frame: references, then deletions.
LEMMA EventsOfFacts ==
    ASSUME NEW r \in Seq(Ref), NEW d \in Seq(Names)
    PROVE  /\ Changes(r, d) \in ChangesFrame
           /\ EventsOf(Changes(r, d)) = Written(r) \o Gone(d)
           /\ EventsOf(Changes(r, d)) \in Seq(Event)
           /\ \A i \in 1..Len(EventsOf(Changes(r, d))) : EventsOf(Changes(r, d))[i].typ # "synced"
<1> DEFINE a == Written(r)
           b == Gone(d)
           e == EventsOf(Changes(r, d))
<1>1. Changes(r, d) \in ChangesFrame /\ e = a \o b
    BY DEF ChangesFrame, Changes, EventsOf
<1>2. a \in Seq(Event) /\ Len(a) = Len(r) /\ \A i \in 1..Len(a) : a[i].typ = "change"
    BY WrittenFacts
<1>3. b \in Seq(Event) /\ Len(b) = Len(d) /\ \A i \in 1..Len(b) : b[i].typ = "deleted"
    BY GoneFacts
<1> HIDE DEF a, b, e
<1>4. e \in Seq(Event) /\ Len(e) = Len(a) + Len(b) /\ Len(a) \in Nat /\ Len(b) \in Nat
      /\ (\A i \in 1..Len(a) : e[i] = a[i]) /\ (\A i \in 1..Len(b) : e[Len(a) + i] = b[i])
  <2>1. /\ a \o b \in Seq(Event) /\ Len(a \o b) = Len(a) + Len(b)
        /\ \A i \in 1..Len(a) : (a \o b)[i] = a[i]
        /\ \A i \in 1..Len(b) : (a \o b)[Len(a) + i] = b[i]
    BY <1>2, <1>3, ConcatFacts, Zenon
  <2>2. Len(a) \in Nat /\ Len(b) \in Nat
    BY <1>2, <1>3
  <2> QED
    BY <1>1, <2>1, <2>2, Zenon
<1>5. ASSUME NEW i \in 1..Len(e) PROVE e[i].typ # "synced"
  <2>1. CASE i \in 1..Len(a)
    BY <2>1, <1>2, <1>4
  <2>2. CASE i \notin 1..Len(a)
    <3> DEFINE j == i - Len(a)
    <3>1. j \in 1..Len(b) /\ i = Len(a) + j
        BY <2>2, <1>4
    <3> HIDE DEF j
    <3> QED
        BY <3>1, <1>3, <1>4
  <2> QED
    BY <2>1, <2>2
<1> QED
    BY <1>1, <1>4, <1>5 DEF a, b, e

\* A frame of changes is one of references and deletions.
LEMMA ChangesFrameFacts ==
    ASSUME NEW m \in ChangesFrame
    PROVE  /\ m.typ = "changes" /\ EventsOf(m) \in Seq(Event)
           /\ \A i \in 1..Len(EventsOf(m)) : EventsOf(m)[i].typ # "synced"
<1>1. m.typ = "changes" /\ m.refs \in Seq(Ref) /\ m.deleted \in Seq(Names) /\ m = Changes(m.refs, m.deleted)
    BY DEF ChangesFrame, Changes
<1> DEFINE r == m.refs
           d == m.deleted
<1>2. r \in Seq(Ref) /\ d \in Seq(Names) /\ m = Changes(r, d)
    BY <1>1
<1> HIDE DEF r, d
<1>3. /\ EventsOf(Changes(r, d)) \in Seq(Event)
      /\ \A i \in 1..Len(EventsOf(Changes(r, d))) : EventsOf(Changes(r, d))[i].typ # "synced"
    BY <1>2, EventsOfFacts, Zenon
<1> QED
    BY <1>1, <1>2, <1>3, Zenon


-----------------------------------------------------------------------------
(***************************************************************************)
(* The events on their way to the consumer.                                *)
(***************************************************************************)
Word(m) == IF m.typ = "changes" THEN EventsOf(m) ELSE <<>>
Words(fs) == [i \in DOMAIN fs |-> Word(fs[i])]
Way(p, fs) == p \o FlattenSeq(Words(fs))

\* The kinds of frames.
LEMMA FrameFacts ==
    ASSUME NEW m \in Frame
    PROVE  /\ m.typ \in {"changes", "synced", "err"}
           /\ m.typ = "changes" <=> m \in ChangesFrame
           /\ m.typ = "synced" <=> m = Synced
           /\ Word(m) \in Seq(Event)
           /\ \A i \in 1..Len(Word(m)) : Word(m)[i].typ # "synced"
<1>1. CASE m \in ChangesFrame
  <2>1. m.typ = "changes" /\ m # Synced
    BY <1>1 DEF ChangesFrame, Synced
  <2> QED
    BY <1>1, <2>1, ChangesFrameFacts DEF Word
<1>2. CASE m = Synced
    BY <1>2 DEF Synced, Word, ChangesFrame
<1>3. CASE m \in {Err(code) : code \in {"stale", "bad", "refused"}}
    BY <1>3 DEF Synced, Err, Word, ChangesFrame
<1> QED
    BY <1>1, <1>2, <1>3 DEF Frame

\* The words of frames.
LEMMA WordsFacts ==
    ASSUME NEW fs \in Seq(Frame)
    PROVE  /\ Words(fs) \in Seq(Seq(Event)) /\ Len(Words(fs)) = Len(fs)
           /\ \A i \in 1..Len(fs) : Words(fs)[i] = Word(fs[i])
<1>1. Len(fs) \in Nat /\ DOMAIN fs = 1..Len(fs)
    OBVIOUS
<1>2. \A i \in 1..Len(fs) : fs[i] \in Frame
    OBVIOUS
<1>3. \A i \in 1..Len(fs) : Word(fs[i]) \in Seq(Event)
    BY <1>2, FrameFacts, Zenon
<1>4. Words(fs) \in [1..Len(fs) -> Seq(Event)]
    BY <1>1, <1>3, Zenon DEF Words
<1>5. \A i \in 1..Len(fs) : Words(fs)[i] = Word(fs[i])
    BY <1>1, Zenon DEF Words
<1> QED
    BY <1>1, <1>4, <1>5, IsASeq, LenProperties

\* A frame is sent.
LEMMA WayAppend ==
    ASSUME NEW p \in Seq(Event), NEW fs \in Seq(Frame), NEW m \in Frame
    PROVE  Way(p, Append(fs, m)) = Way(p, fs) \o Word(m)
<1> DEFINE gs == Append(fs, m)
<1>1. gs \in Seq(Frame) /\ Len(gs) = Len(fs) + 1 /\ Len(fs) \in Nat
      /\ gs[Len(fs)+1] = m /\ \A i \in 1..Len(fs) : gs[i] = fs[i]
    OBVIOUS
<1>2. Word(m) \in Seq(Event)
    BY FrameFacts, Zenon
<1>3. Words(gs) = Append(Words(fs), Word(m))
  <2> HIDE DEF gs
  <2>1. Words(gs) \in Seq(Seq(Event)) /\ Len(Words(gs)) = Len(gs)
        /\ \A i \in 1..Len(gs) : Words(gs)[i] = Word(gs[i])
    BY <1>1, WordsFacts, Zenon
  <2>2. Words(fs) \in Seq(Seq(Event)) /\ Len(Words(fs)) = Len(fs)
        /\ \A i \in 1..Len(fs) : Words(fs)[i] = Word(fs[i])
    BY WordsFacts, Zenon
  <2> DEFINE v == Words(fs)
             w == Append(v, Word(m))
  <2> HIDE DEF v
  <2>3. w \in Seq(Seq(Event)) /\ Len(w) = Len(fs) + 1 /\ w[Len(fs)+1] = Word(m)
        /\ \A i \in 1..Len(fs) : w[i] = v[i]
    BY <2>2, <1>2, AppendProperties DEF v
  <2> HIDE DEF w
  <2>4. \A i \in 1..(Len(fs)+1) : i \in 1..Len(fs) \/ i = Len(fs) + 1
    BY <1>1
  <2>5. \A i \in 1..(Len(fs)+1) : Words(gs)[i] = w[i]
    BY <2>1, <2>2, <2>3, <2>4, <1>1, Zenon DEF v
  <2>6. Len(Words(gs)) = Len(w) /\ \A i \in 1..Len(w) : Words(gs)[i] = w[i]
    BY <2>1, <2>3, <2>5, <1>1, Zenon
  <2>7. Words(gs) = w
    BY <2>1, <2>3, <2>6, SeqEqual
  <2> QED
    BY <2>7 DEF w, v
<1>4. FlattenSeq(Words(gs)) = FlattenSeq(Words(fs)) \o Word(m)
    BY <1>2, <1>3, WordsFacts, FlattenAppend, Zenon
<1>5. FlattenSeq(Words(fs)) \in Seq(Event)
    BY WordsFacts, FlattenType, Zenon
<1> QED
  <2>1. (p \o FlattenSeq(Words(fs))) \o Word(m) = p \o (FlattenSeq(Words(fs)) \o Word(m))
    BY <1>2, <1>5, ConcatAssoc, Zenon
  <2> QED
    BY <2>1, <1>4, Zenon DEF Way

\* A frame is read.
LEMMA WayTail ==
    ASSUME NEW fs \in Seq(Frame), fs # <<>>
    PROVE  Way(<<>>, fs) = Way(Word(fs[1]), Tail(fs))
<1> DEFINE gs == Tail(fs)
<1>1. gs \in Seq(Frame) /\ Len(fs) = Len(gs) + 1 /\ Len(gs) \in Nat /\ fs[1] \in Frame
      /\ \A i \in 1..Len(gs) : gs[i] = fs[i+1]
    OBVIOUS
<1>2. Word(fs[1]) \in Seq(Event)
    BY <1>1, FrameFacts, Zenon
<1>3. Words(fs) \in Seq(Seq(Event)) /\ Len(Words(fs)) = Len(fs)
      /\ \A i \in 1..Len(fs) : Words(fs)[i] = Word(fs[i])
    BY WordsFacts, Zenon
<1>4. Words(gs) \in Seq(Seq(Event)) /\ Len(Words(gs)) = Len(gs)
      /\ \A i \in 1..Len(gs) : Words(gs)[i] = Word(gs[i])
    BY <1>1, WordsFacts, Zenon
<1> HIDE DEF gs
<1>5. Words(gs) = Tail(Words(fs))
  <2> DEFINE v == Words(fs)
             w == Tail(v)
  <2> HIDE DEF v
  <2>1. w \in Seq(Seq(Event)) /\ Len(w) = Len(gs) /\ \A i \in 1..Len(gs) : w[i] = v[i+1]
    BY <1>1, <1>3 DEF v
  <2> HIDE DEF w
  <2>2. \A i \in 1..Len(gs) : i + 1 \in 1..Len(fs)
    BY <1>1
  <2>3. \A i \in 1..Len(gs) : Words(gs)[i] = w[i]
    BY <2>1, <2>2, <1>1, <1>3, <1>4, Zenon DEF v
  <2>4. Words(gs) = w
    BY <2>1, <2>3, <1>4, SeqEqual, Zenon
  <2> QED
    BY <2>4 DEF w, v
<1>6. Len(Words(fs)) # 0 /\ 1 \in 1..Len(fs)
    BY <1>1, <1>3
<1>7. FlattenSeq(Words(fs)) = Words(fs)[1] \o FlattenSeq(Words(gs))
    BY <1>3, <1>5, <1>6, FlattenTail, Zenon
<1>8. FlattenSeq(Words(fs)) = Word(fs[1]) \o FlattenSeq(Words(gs))
    BY <1>3, <1>6, <1>7, Zenon
<1>9. FlattenSeq(Words(fs)) \in Seq(Event)
    BY <1>3, FlattenType, Zenon
<1> QED
  <2>1. <<>> \o FlattenSeq(Words(fs)) = FlattenSeq(Words(fs))
    BY <1>9
  <2> QED
    BY <2>1, <1>8, Zenon DEF Way, gs

\* What is on its way is a sequence of events.
LEMMA WayType ==
    ASSUME NEW p \in Seq(Event), NEW fs \in Seq(Frame)
    PROVE  /\ Way(p, fs) \in Seq(Event)
           /\ fs = <<>> => Way(p, fs) = p
           /\ p # <<>> => /\ Way(p, fs) # <<>> /\ Way(p, fs)[1] = p[1]
                          /\ Tail(Way(p, fs)) = Way(Tail(p), fs)
<1> DEFINE f == FlattenSeq(Words(fs))
<1>1. f \in Seq(Event)
    BY WordsFacts, FlattenType, Zenon
<1>2. fs = <<>> => f = <<>>
  <2>1. fs = <<>> => Len(Words(fs)) = 0
    BY WordsFacts
  <2> QED
    BY <2>1, WordsFacts, FlattenType, Zenon
<1>3. Way(p, fs) = p \o f /\ Way(Tail(p), fs) = Tail(p) \o f
    BY DEF Way
<1> HIDE DEF f
<1>4. p \o f \in Seq(Event) /\ (f = <<>> => p \o f = p)
    BY <1>1
<1>5. p # <<>> => p \o f # <<>> /\ (p \o f)[1] = p[1] /\ Tail(p \o f) = Tail(p) \o f
    BY <1>1
<1> QED
    BY <1>2, <1>3, <1>4, <1>5
\* What is on its way: the pending events, the frames and the batch.
Road(p, fs, r) == Way(p, fs) \o Written(r)

\* A batch is flushed: its references are on their way as they were.
LEMMA FlushedFrame ==
    ASSUME NEW p \in Seq(Event), NEW fs \in Seq(Frame), NEW r \in Seq(Ref), NEW d \in Seq(Names)
    PROVE  /\ Changes(r, d) \in Frame /\ Road(p, fs, r) \in Seq(Event) /\ Gone(d) \in Seq(Event)
           /\ Way(p, Append(fs, Changes(r, d))) = Road(p, fs, r) \o Gone(d)
<1> DEFINE m == Changes(r, d)
           w == Way(p, fs)
           a == Written(r)
           b == Gone(d)
<1>1. m \in ChangesFrame /\ m \in Frame /\ EventsOf(m) = a \o b
    BY EventsOfFacts DEF Frame
<1>2. Word(m) = a \o b
    BY <1>1 DEF Word, Changes
<1>3. a \in Seq(Event) /\ b \in Seq(Event) /\ w \in Seq(Event)
    BY WrittenFacts, GoneFacts, WayType
<1>4. Way(p, Append(fs, m)) = w \o (a \o b)
    BY <1>1, <1>2, WayAppend
<1> HIDE DEF m, w, a, b
<1>5. w \o a \in Seq(Event)
    BY <1>3
<1>6. (w \o a) \o b = w \o (a \o b)
    BY <1>3, ConcatAssoc, Zenon
<1> QED
    BY <1>1, <1>3, <1>4, <1>5, <1>6 DEF m, w, a, b, Road

\* That is what the belief of the node is about.
LEMMA OnItsWayIs ==
    /\ pending \in Seq(Event) /\ frames \in Seq(Frame) /\ queued \in Seq(Ref)
            => OnItsWay = Road(pending, frames, queued)
    /\ pending' \in Seq(Event) /\ frames' \in Seq(Frame) /\ queued' \in Seq(Ref)
            => OnItsWay' = Road(pending', frames', queued')
<1>0. ASSUME NEW p \in Seq(Event), NEW fs \in Seq(Frame), NEW r \in Seq(Ref)
      PROVE  Way(p, Append(fs, Changes(r, <<>>))) = Road(p, fs, r)
  <2> DEFINE d == <<>>
  <2>1. d \in Seq(Names)
    OBVIOUS
  <2>2. Gone(d) = <<>>
    BY NothingTold
  <2> HIDE DEF d
  <2>5. Way(p, Append(fs, Changes(r, d))) = Road(p, fs, r) \o Gone(d) /\ Road(p, fs, r) \in Seq(Event)
    BY <2>1, FlushedFrame, Zenon
  <2>3. Way(p, Append(fs, Changes(r, d))) = Road(p, fs, r) \o <<>> /\ Road(p, fs, r) \in Seq(Event)
    BY <2>2, <2>5
  <2>4. Road(p, fs, r) \o <<>> = Road(p, fs, r)
    BY <2>3
  <2> QED
    BY <2>3, <2>4 DEF d
<1>1. OnItsWay = Way(pending, Append(frames, Changes(queued, <<>>)))
    BY DEF OnItsWay, Way, Words, Word
<1>2. OnItsWay' = Way(pending', Append(frames', Changes(queued', <<>>)))
    BY DEF OnItsWay, Way, Words, Word
<1> QED
    BY <1>0, <1>1, <1>2

\* What is on its way is a sequence of events; the first pending one is the first.
LEMMA RoadType ==
    ASSUME NEW p \in Seq(Event), NEW fs \in Seq(Frame), NEW r \in Seq(Ref)
    PROVE  /\ Road(p, fs, r) \in Seq(Event)
           /\ fs = <<>> /\ r = <<>> => Road(p, fs, r) = p
           /\ p # <<>> => /\ Road(p, fs, r) # <<>> /\ Road(p, fs, r)[1] = p[1]
                          /\ Tail(Road(p, fs, r)) = Road(Tail(p), fs, r)
<1> DEFINE w == Way(p, fs)
           a == Written(r)
<1>1. w \in Seq(Event) /\ a \in Seq(Event)
    BY WayType, WrittenFacts
<1>2. fs = <<>> /\ r = <<>> => w = p /\ a = <<>>
    BY WayType, NothingTold
<1>3. p # <<>> => w # <<>> /\ w[1] = p[1] /\ Tail(w) = Way(Tail(p), fs)
    BY WayType
<1> HIDE DEF w, a
<1>4. w \o a \in Seq(Event) /\ w \o <<>> = w
    BY <1>1
<1>5. w # <<>> => w \o a # <<>> /\ (w \o a)[1] = w[1] /\ Tail(w \o a) = Tail(w) \o a
    BY <1>1
<1>6. Road(p, fs, r) = w \o a /\ Road(Tail(p), fs, r) = Way(Tail(p), fs) \o a
    BY DEF Road, w, a
<1> QED
    BY <1>2, <1>3, <1>4, <1>5, <1>6

\* A frame is read: its events are pending.
LEMMA RoadTail ==
    ASSUME NEW fs \in Seq(Frame), fs # <<>>, NEW r \in Seq(Ref)
    PROVE  Road(<<>>, fs, r) = Road(Word(fs[1]), Tail(fs), r)
    BY WayTail DEF Road

\* An event more at the front.
LEMMA RoadSynced ==
    ASSUME NEW fs \in Seq(Frame), NEW r \in Seq(Ref)
    PROVE  Road(<<Synced>>, fs, r) = <<Synced>> \o Road(<<>>, fs, r)
<1> DEFINE f == FlattenSeq(Words(fs))
           a == Written(r)
           y == <<Synced>>
<1>1. f \in Seq(Event) /\ a \in Seq(Event) /\ y \in Seq(Event)
  <2>1. f \in Seq(Event)
    BY WordsFacts, FlattenType, Zenon
  <2>2. a \in Seq(Event)
    BY WrittenFacts, Zenon
  <2>3. Synced \in Event
    BY DEF Event
  <2> QED
    BY <2>1, <2>2, <2>3
<1>2. Road(y, fs, r) = (y \o f) \o a /\ Road(<<>>, fs, r) = (<<>> \o f) \o a
    BY DEF Road, Way
<1> HIDE DEF f, a, y
<1>3. (y \o f) \o a = y \o (f \o a) /\ <<>> \o f = f
    BY <1>1
<1>4. Road(y, fs, r) = y \o Road(<<>>, fs, r)
    BY <1>2, <1>3
<1> QED
    BY <1>4 DEF y

\* A batch flushed after the frames on their way, whether it is empty or not.
LEMMA FlushFacts ==
    ASSUME NEW p \in Seq(Event), NEW fs \in Seq(Frame), NEW r \in Seq(Ref), NEW d \in Seq(Names)
    PROVE  /\ fs \o Flush(r, d) \in Seq(Frame) /\ Len(fs \o Flush(r, d)) >= Len(fs)
           /\ \A i \in 1..Len(fs) : (fs \o Flush(r, d))[i] = fs[i]
           /\ \A i \in 1..Len(fs \o Flush(r, d)) :
                    i \notin 1..Len(fs) => (fs \o Flush(r, d))[i].typ = "changes"
           /\ Way(p, fs \o Flush(r, d)) = Road(p, fs, r) \o Gone(d)
<1> DEFINE m == Changes(r, d)
<1>0. /\ m \in Frame /\ Road(p, fs, r) \in Seq(Event) /\ Gone(d) \in Seq(Event)
      /\ Way(p, Append(fs, m)) = Road(p, fs, r) \o Gone(d)
    BY FlushedFrame, Zenon
<1>1. CASE r = <<>> /\ d = <<>>
  <2>1. Flush(r, d) = <<>> /\ fs \o <<>> = fs
    BY <1>1 DEF Flush
  <2>2. Road(p, fs, r) = Way(p, fs) /\ Way(p, fs) \in Seq(Event) /\ Gone(d) = <<>>
    <3>1. Way(p, fs) \in Seq(Event) /\ Written(r) = <<>> /\ Gone(d) = <<>>
        BY <1>1, WayType, NothingTold
    <3>2. Way(p, fs) \o <<>> = Way(p, fs)
        BY <3>1
    <3> QED
        BY <3>1, <3>2 DEF Road
  <2>3. Way(p, fs) \o <<>> = Way(p, fs)
    BY <2>2
  <2> QED
    BY <2>1, <2>2, <2>3
<1>2. CASE ~ (r = <<>> /\ d = <<>>)
  <2>0. m.typ = "changes"
    BY DEF Changes
  <2>1. Flush(r, d) = <<m>>
    BY <1>2 DEF Flush
  <2> HIDE DEF m
  <2>2. fs \o <<m>> = Append(fs, m)
    BY <1>0
  <2>3. /\ Append(fs, m) \in Seq(Frame) /\ Len(Append(fs, m)) = Len(fs) + 1 /\ Len(fs) \in Nat
        /\ Append(fs, m)[Len(fs) + 1] = m /\ \A i \in 1..Len(fs) : Append(fs, m)[i] = fs[i]
    BY <1>0
  <2> DEFINE gs == Append(fs, m)
  <2> HIDE DEF gs
  <2>4. \A i \in 1..Len(gs) : i \notin 1..Len(fs) => gs[i].typ = "changes"
    BY <2>0, <2>3 DEF gs
  <2>5. /\ gs \in Seq(Frame) /\ Len(gs) >= Len(fs) /\ \A i \in 1..Len(fs) : gs[i] = fs[i]
        /\ Way(p, gs) = Road(p, fs, r) \o Gone(d)
    BY <2>3, <1>0 DEF gs
  <2>6. fs \o Flush(r, d) = gs
    BY <2>1, <2>2 DEF gs
  <2> QED
    BY <2>4, <2>5, <2>6, Zenon
<1> QED
    BY <1>1, <1>2

-----------------------------------------------------------------------------
(***************************************************************************)
(* What a node sends.                                                      *)
(***************************************************************************)
Keyed(kn) == [n \in Names |-> kn[n].key]

\* The names a batch writes.
Wrote(acc) == {acc.refs[i].name : i \in DOMAIN acc.refs}

\* A batch tells of every name it does not write and delete what the stream
\* believes then: the references if it does not delete it, the deletions if
\* it does not write it.
Truthful(g, acc) ==
    \A n \in Names :
        /\ n \notin ToSet(acc.deleted) => Leads(g, Written(acc.refs), n, acc.known[n].key)
        /\ n \notin Wrote(acc) => Leads(g, Gone(acc.deleted), n, acc.known[n].key)

\* One reference more.
LEMMA WrittenAppend ==
    ASSUME NEW r \in Seq(Ref), NEW n \in Names, NEW k \in Keys
    PROVE  Written(Append(r, [name |-> n, key |-> k]))
           = Append(Written(r), [typ |-> "change", name |-> n, key |-> k])
<1> DEFINE x == [name |-> n, key |-> k]
           t == <<x>>
           e == [typ |-> "change", name |-> n, key |-> k]
<1>1. x \in Ref /\ x.name = n /\ x.key = k
    BY DEF Ref
<1> HIDE DEF x
<1>2. t \in Seq(Ref) /\ Len(t) = 1 /\ t[1] = x /\ Append(r, x) = r \o t
    BY <1>1
<1>3. Written(t) = <<e>>
  <2>0. 1 \in 1..Len(t)
    BY <1>2
  <2> HIDE DEF t
  <2>1. Written(t) \in Seq(Event) /\ Len(Written(t)) = 1 /\ Written(t)[1] = e
    BY <1>1, <1>2, <2>0, WrittenFacts, Zenon
  <2> DEFINE w == Written(t)
  <2>2. w \in Seq(Event) /\ Len(w) = 1 /\ w[1] = e
    BY <2>1
  <2> HIDE DEF w, e
  <2>3. w = <<e>>
    BY <2>2
  <2> QED
    BY <2>3 DEF w
<1>4. Written(r \o t) = Written(r) \o <<e>>
    BY <1>2, <1>3, WrittenConcat
<1>5. Written(r) \in Seq(Event) /\ e \in Event
    BY WrittenFacts DEF Event
<1>6. Written(r) \o <<e>> = Append(Written(r), e)
  <2> DEFINE w == Written(r)
  <2> HIDE DEF w, e
  <2> QED
    BY <1>5 DEF w
<1> QED
    BY <1>2, <1>4, <1>6 DEF x

\* A hint keeps a batch truthful.
LEMMA ApplyHintTruthful ==
    ASSUME NEW g \in Held, NEW acc \in Batch, NEW q \in Hint, Truthful(g, acc)
    PROVE  Truthful(g, ApplyHint(acc, q))
<1> DEFINE new == ApplyHint(acc, q)
           kn == acc.known
           o == q.name
<1>1. kn \in [Names -> Row] /\ acc.refs \in Seq(Ref) /\ acc.deleted \in Seq(Names)
    BY DEF Batch
<1>2. o \in Names /\ q.key \in MaybeKey /\ q.ver \in Nat
    BY WatchAssumption DEF Hint
<1>3. CASE ~ Fresh(kn, q)
    BY <1>3 DEF ApplyHint
<1>4. CASE Fresh(kn, q)
  <2>1. /\ new.known = [kn EXCEPT ![o] = [key |-> q.key, ver |-> q.ver]]
        /\ new.refs = IF q.key \notin {NoKey, kn[o].key}
                      THEN Append(acc.refs, [name |-> o, key |-> q.key]) ELSE acc.refs
        /\ new.deleted = IF q.key = NoKey /\ kn[o].key # NoKey THEN Append(acc.deleted, o) ELSE acc.deleted
    BY <1>4 DEF ApplyHint
  <2>2. /\ new.known[o].key = q.key
        /\ \A n \in Names : n # o => new.known[n].key = kn[n].key
        /\ \A n \in Names : kn[n].key \in MaybeKey
    BY <2>1, <1>1, <1>2 DEF Row
  <2>3. Written(acc.refs) \in Seq(Event) /\ Gone(acc.deleted) \in Seq(Event)
    BY <1>1, WrittenFacts, GoneFacts
  <2> HIDE DEF new, kn, o
  <2> SUFFICES ASSUME NEW n \in Names
               PROVE  /\ n \notin ToSet(new.deleted) => Leads(g, Written(new.refs), n, new.known[n].key)
                      /\ n \notin Wrote(new) => Leads(g, Gone(new.deleted), n, new.known[n].key)
    BY DEF Truthful, new
  <2>4. /\ n \notin ToSet(acc.deleted) => Leads(g, Written(acc.refs), n, kn[n].key)
        /\ n \notin Wrote(acc) => Leads(g, Gone(acc.deleted), n, kn[n].key)
    BY DEF Truthful, kn
  <2>5. CASE q.key = kn[o].key
    <3>1. new.refs = acc.refs /\ new.deleted = acc.deleted /\ new.known[n].key = kn[n].key
        BY <2>1, <2>2, <2>5
    <3> QED
        BY <2>4, <3>1 DEF Wrote
  <2>6. CASE q.key # kn[o].key /\ q.key # NoKey
    <3> DEFINE e == [typ |-> "change", name |-> o, key |-> q.key]
    <3>1. new.refs = Append(acc.refs, [name |-> o, key |-> q.key]) /\ new.deleted = acc.deleted
        BY <2>1, <2>6
    <3>2. q.key \in Keys
        BY <1>2, <2>6 DEF MaybeKey
    <3>3. Written(new.refs) = Append(Written(acc.refs), e)
        BY <1>1, <1>2, <3>1, <3>2, WrittenAppend DEF o
    <3>4. e \in Event /\ Tells(e, o, q.key) /\ (About(e, n) <=> n = o)
        BY <1>2, <3>2 DEF Event, Tells, About, o
    <3>5. ASSUME n \notin ToSet(new.deleted) PROVE Leads(g, Written(new.refs), n, new.known[n].key)
      <4>1. Leads(g, Written(acc.refs), n, kn[n].key)
        BY <3>1, <3>5, <2>4
      <4>2. IF About(e, n) THEN Tells(e, n, new.known[n].key) /\ new.known[n].key # kn[n].key
            ELSE new.known[n].key = kn[n].key
        BY <3>4, <2>2, <2>6
      <4> HIDE DEF e
      <4> QED
        BY <4>1, <4>2, <3>3, <3>4, <2>2, <2>3, LeadsOne
    <3>6. ASSUME n \notin Wrote(new) PROVE Leads(g, Gone(new.deleted), n, new.known[n].key)
      <4> DEFINE x == [name |-> o, key |-> q.key]
                 r == acc.refs
      <4>1. x \in Ref /\ x.name = o
        BY <1>2, <3>2 DEF Ref, o
      <4> HIDE DEF x
      <4>2. /\ DOMAIN Append(r, x) = 1..(Len(r) + 1) /\ Len(r) \in Nat /\ DOMAIN r = 1..Len(r)
            /\ Append(r, x)[Len(r) + 1] = x /\ \A i \in 1..Len(r) : Append(r, x)[i] = r[i]
        BY <1>1, <4>1
      <4>3. new.refs = Append(r, x)
        BY <3>1 DEF x
      <4>4. o \in Wrote(new) /\ Wrote(acc) \subseteq Wrote(new)
        <5> HIDE DEF r
        <5>1. Len(r) + 1 \in DOMAIN new.refs /\ \A i \in DOMAIN r : i \in DOMAIN new.refs
            BY <4>2, <4>3
        <5>2. new.refs[Len(r) + 1] = x /\ \A i \in DOMAIN r : new.refs[i] = r[i]
            BY <4>2, <4>3
        <5> QED
            BY <4>1, <5>1, <5>2 DEF Wrote, r
      <4> QED
        BY <4>4, <3>1, <3>6, <2>2, <2>4
    <3> QED
        BY <3>5, <3>6
  <2>7. CASE q.key # kn[o].key /\ q.key = NoKey
    <3> DEFINE e == [typ |-> "deleted", name |-> o]
    <3>1. new.refs = acc.refs /\ new.deleted = Append(acc.deleted, o)
        BY <2>1, <2>7
    <3>3. Gone(new.deleted) = Append(Gone(acc.deleted), e)
        BY <1>1, <1>2, <3>1, GoneAppend DEF o
    <3>4. e \in Event /\ Tells(e, o, q.key) /\ (About(e, n) <=> n = o)
        BY <1>2, <2>7 DEF Event, Tells, About, o
    <3>5. ASSUME n \notin Wrote(new) PROVE Leads(g, Gone(new.deleted), n, new.known[n].key)
      <4>1. Leads(g, Gone(acc.deleted), n, kn[n].key)
        BY <3>1, <3>5, <2>4 DEF Wrote
      <4>2. IF About(e, n) THEN Tells(e, n, new.known[n].key) /\ new.known[n].key # kn[n].key
            ELSE new.known[n].key = kn[n].key
        BY <3>4, <2>2, <2>7
      <4> HIDE DEF e
      <4> QED
        BY <4>1, <4>2, <3>3, <3>4, <2>2, <2>3, LeadsOne
    <3>6. ASSUME n \notin ToSet(new.deleted) PROVE Leads(g, Written(new.refs), n, new.known[n].key)
      <4> DEFINE d == acc.deleted
      <4>1. o \in Names
        BY <1>2 DEF o
      <4>2. /\ DOMAIN Append(d, o) = 1..(Len(d) + 1) /\ Len(d) \in Nat /\ DOMAIN d = 1..Len(d)
            /\ Append(d, o)[Len(d) + 1] = o /\ \A i \in 1..Len(d) : Append(d, o)[i] = d[i]
        BY <1>1, <4>1
      <4>4. o \in ToSet(new.deleted) /\ ToSet(d) \subseteq ToSet(new.deleted)
        <5> HIDE DEF d
        <5>0. new.deleted = Append(d, o)
            BY <3>1 DEF d
        <5>1. Len(d) + 1 \in DOMAIN new.deleted /\ \A i \in DOMAIN d : i \in DOMAIN new.deleted
            BY <4>2, <5>0
        <5>2. new.deleted[Len(d) + 1] = o /\ \A i \in DOMAIN d : new.deleted[i] = d[i]
            BY <4>2, <5>0
        <5> QED
            BY <5>1, <5>2 DEF ToSet
      <4> QED
        BY <4>4, <3>1, <3>6, <2>2, <2>4
    <3> QED
        BY <3>5, <3>6
  <2> QED
    BY <2>5, <2>6, <2>7
<1> QED
    BY <1>3, <1>4

\* Draining the queue makes a truthful batch.
LEMMA DrainTruthful ==
    ASSUME NEW b \in Batch, b.refs = <<>>, b.deleted = <<>>, NEW s \in Seq(Hint)
    PROVE  FoldLeft(ApplyHint, b, s) \in Batch /\ Truthful(Keyed(b.known), FoldLeft(ApplyHint, b, s))
<1> DEFINE g == Keyed(b.known)
<1>0. /\ FoldLeft(ApplyHint, b, s) = Drained(b, s, Len(s))
      /\ Drained(b, s, 0) = b
      /\ \A k \in 0..(Len(s)-1) : Drained(b, s, k + 1) = ApplyHint(Drained(b, s, k), s[k+1])
    BY DrainSteps, Zenon
<1>1. \A k \in 0..Len(s) : Drained(b, s, k) \in Batch
    BY DrainType, Zenon
<1>2. g \in Held /\ \A n \in Names : g[n] = b.known[n].key
    BY DEF Keyed, Held, Batch, Row
<1> HIDE DEF g
<1> DEFINE T == {k \in 0..Len(s) : Truthful(g, Drained(b, s, k))}
<1>3. 0 \in T /\ T \subseteq 0..Len(s) /\ Len(s) \in Nat
  <2>1. \A n \in Names : Leads(g, <<>>, n, b.known[n].key)
    BY <1>2, LeadsEmpty
  <2>2. Truthful(g, b)
    BY <2>1, NothingTold DEF Truthful
  <2> QED
    BY <2>2, <1>0
<1>4. ASSUME NEW k \in 0..(Len(s)-1), k \in T PROVE k + 1 \in T
  <2>1. s[k+1] \in Hint /\ k + 1 \in 0..Len(s) /\ k \in 0..Len(s) /\ Truthful(g, Drained(b, s, k))
    BY <1>4
  <2>2. Truthful(g, ApplyHint(Drained(b, s, k), s[k+1]))
    BY <2>1, <1>1, <1>2, ApplyHintTruthful, Zenon
  <2> QED
    BY <2>1, <2>2, <1>0
<1>5. T = 0..Len(s)
  <2>1. \A k \in 0..(Len(s)-1) : k \in T => k + 1 \in T
    BY <1>4
  <2> HIDE DEF T
  <2> QED
    BY <1>3, <2>1, Induction
<1>6. Len(s) \in 0..Len(s)
    BY <1>3
<1>7. Truthful(g, Drained(b, s, Len(s)))
    BY <1>5, <1>6, Zenon
<1> QED
    BY <1>0, <1>1, <1>6, <1>7, Zenon DEF g

-----------------------------------------------------------------------------
(***************************************************************************)
(* The invariant.                                                          *)
(***************************************************************************)
Typed ==
    /\ TypeOK
    /\ pending \in Seq(Event) /\ frames \in Seq(Frame) /\ todo \in Seq(Nodes) /\ queued \in Seq(Ref)
    /\ pc \in {"open", "stream"} => todo # <<>>

\* The two sides of a session: what there is before it, while its first
\* listing goes on, when it is refused and when it is live.
Session ==
    /\ state = held
    /\ pc = "stream" <=> stream # "none"
    /\ stream # "none" => \A n \in Names : catalog[n].key \in current[n]
    /\ stream # "live" => ~ synced
    /\ stream = "none" => pending = <<>> /\ frames = <<>> /\ listed = {}
    /\ listed = {} => queued = <<>> /\ seen = {}
    /\ stream \in {"none", "start"} => crossed = {}
    /\ \A i \in 1..Len(frames) : /\ frames[i].typ = "synced" => stream = "live"
                                 /\ frames[i].typ = "err" => stream = "refused"

\* While the first listing goes on: a name that a page held is believed to
\* be what it was on that page, one that its page did not hold was not there
\* then, and the versions of the others are not known.
FirstListing ==
    stream = "start" => \A n \in Names :
        /\ n \in seen => known[n].key \in current[n]
        /\ n \in listed \ seen => NoKey \in current[n]
        /\ n \notin seen => known[n].ver = 0

\* Before the first synced of a stream there is what its first reconcile sent
\* and nothing else: frames of changes, and then the synced frame.
FirstSync ==
    stream = "live" /\ ~ synced =>
        \E i \in 1..Len(frames) :
            /\ frames[i] = Synced /\ \A j \in 1..(i-1) : frames[j].typ = "changes"
            /\ \A n \in Names : \E k \in current[n] :
                    LastWord(held, Way(pending, SubSeq(frames, 1, i - 1)), n, k)

\* The synced event comes alone, once.
SyncedNow ==
    \A i \in 1..Len(pending) :
        pending[i].typ = "synced" => Len(pending) = 1 /\ synced /\ \A n \in Names : held[n] \in current[n]

\* The node's belief, and that no event is told twice.
Belief ==
    stream # "none" => \A n \in Names \ crossed : Leads(held, OnItsWay, n, known[n].key)

WatchInv == Typed /\ Session /\ FirstListing /\ FirstSync /\ SyncedNow /\ Belief

-----------------------------------------------------------------------------
\* A page of the catalog: what is queued tells what changes in the belief.
LEMMA PageSends ==
    ASSUME Typed, NEW page \in SUBSET Names, ReconcilePage(page)
    PROVE  /\ known' \in [Names -> Row]
           /\ \E new \in Seq(Ref) :
                /\ \/ queued' = queued \o new /\ frames' = frames
                   \/ queued' = <<>> /\ frames' = Append(frames, Changes(queued \o new, <<>>))
                /\ \A n \in Names : Leads(Keyed(known), Written(new), n, known'[n].key)
<1> DEFINE taken == {n \in {m \in page : catalog[m].key # NoKey} : ~Stale(n)}
           changed == {n \in taken : catalog[n].key # known[n].key}
           S == {[name |-> n, key |-> catalog[n].key] : n \in changed}
           new == SetToSeq(S)
           g == Keyed(known)
           s == Written(new)
<1>0. /\ catalog \in [Names -> Row] /\ known \in [Names -> Row] /\ queued \in Seq(Ref)
      /\ \A n \in Names : catalog[n].key \in MaybeKey /\ known[n].key \in MaybeKey
    BY DEF Typed, TypeOK, Row
<1>1. /\ known' = [n \in Names |-> IF n \in taken THEN catalog[n] ELSE known[n]]
      /\ \/ queued' = queued \o new /\ frames' = frames
         \/ queued' = <<>> /\ frames' = Append(frames, Changes(queued \o new, <<>>))
    BY DEF ReconcilePage
<1>2. known' \in [Names -> Row]
    BY <1>0, <1>1
<1>3. g \in Held /\ \A n \in Names : g[n] = known[n].key
    BY <1>0 DEF Keyed, Held
<1>4. IsFiniteSet(changed)
    BY WatchAssumption, FS_Subset
<1>5. IsFiniteSet(S)
  <2> DEFINE f == [n \in changed |-> [name |-> n, key |-> catalog[n].key]]
  <2>1. f \in Surjection(changed, S)
    BY DEF Surjection
  <2> QED
    BY <1>4, <2>1, FS_Surjection
<1>6. S \subseteq Ref
    BY <1>0 DEF Ref, MaybeKey
<1>7. \A x \in S : x.name \in changed /\ x.key = catalog[x.name].key /\ x = [name |-> x.name, key |-> x.key]
    OBVIOUS
<1>8. /\ \A n \in Names : n \in changed => known'[n].key = catalog[n].key /\ g[n] # known'[n].key
      /\ \A n \in Names : n \notin changed => known'[n].key = g[n]
    BY <1>0, <1>1, <1>3
<1>9. ASSUME NEW n \in changed PROVE \E x \in S : x.name = n
  <2> DEFINE x == [name |-> n, key |-> catalog[n].key]
  <2>1. x \in S /\ x.name = n
    OBVIOUS
  <2> QED
    BY <2>1
<1>13. changed \subseteq Names /\ \A n \in changed : catalog[n].key # NoKey
    OBVIOUS
<1> HIDE DEF S, changed
<1>10. /\ new \in Seq(S)
       /\ \A x \in S : \E i \in 1..Len(new) : new[i] = x
       /\ \A i, j \in 1..Len(new) : new[i] = new[j] => i = j
    BY <1>5, SetToSeqFacts
<1> HIDE DEF new, g
<1>11. new \in Seq(Ref) /\ \A i \in 1..Len(new) : new[i] \in S
    BY <1>6, <1>10
<1>12. ASSUME NEW n \in Names PROVE Leads(g, s, n, known'[n].key)
  <2>1. /\ s \in Seq(Event) /\ Len(s) = Len(new)
        /\ \A i \in 1..Len(new) : s[i].typ = "change" /\ s[i].name = new[i].name /\ s[i].key = new[i].key
    BY <1>11, WrittenFacts
  <2> HIDE DEF s
  <2>2. \A i \in 1..Len(s) : About(s[i], n) <=> new[i].name = n
    BY <2>1 DEF About
  <2>3. \A i \in 1..Len(s) : About(s[i], n) => Tells(s[i], n, known'[n].key) /\ g[n] # known'[n].key
    <3> SUFFICES ASSUME NEW i \in 1..Len(s), About(s[i], n)
                 PROVE  Tells(s[i], n, known'[n].key) /\ g[n] # known'[n].key
        OBVIOUS
    <3>1. i \in 1..Len(new) /\ new[i] \in S /\ new[i].name = n
        BY <1>11, <2>1, <2>2
    <3>2. n \in changed /\ new[i].key = catalog[n].key
        BY <1>7, <3>1
    <3> QED
        BY <3>1, <3>2, <2>1, <1>8 DEF Tells
  <2>4. \A i, j \in 1..Len(s) : About(s[i], n) /\ About(s[j], n) => i = j
    <3> SUFFICES ASSUME NEW i \in 1..Len(s), NEW j \in 1..Len(s), About(s[i], n), About(s[j], n)
                 PROVE  i = j
        OBVIOUS
    <3>1. i \in 1..Len(new) /\ j \in 1..Len(new) /\ new[i].name = n /\ new[j].name = n
        BY <2>1, <2>2
    <3>2. new[i] = [name |-> n, key |-> catalog[n].key] /\ new[j] = [name |-> n, key |-> catalog[n].key]
        BY <3>1, <1>7, <1>11
    <3> QED
        BY <3>1, <3>2, <1>10
  <2>5. g[n] # known'[n].key => \E i \in 1..Len(s) : About(s[i], n)
    <3> SUFFICES ASSUME n \in changed PROVE \E i \in 1..Len(s) : About(s[i], n)
        BY <1>8
    <3>1. PICK x \in S : x.name = n
        BY <1>9
    <3>2. PICK i \in 1..Len(new) : new[i] = x
        BY <1>10
    <3> QED
        BY <3>1, <3>2, <2>1, <2>2
  <2> QED
    BY <1>3, <2>1, <2>3, <2>4, <2>5, OnceLeads
<1> QED
    BY <1>1, <1>2, <1>11, <1>12 DEF g

\* The end of a reconcile: the names no page held are told to be gone.
LEMMA EndSends ==
    ASSUME Typed, ReconcileEnds
    PROVE  /\ known' \in [Names -> Row]
           /\ \E del \in Seq(Names) :
                /\ frames' = (frames \o Flush(queued, del)) \o <<Synced>>
                /\ \A n \in Names : Leads(Keyed(known), Gone(del), n, known'[n].key)
<1> DEFINE gone == {n \in Names \ seen : known[n].key # NoKey}
           del == SetToSeq(gone)
           g == Keyed(known)
           s == Gone(del)
<1>0. known \in [Names -> Row] /\ \A n \in Names : known[n].key \in MaybeKey
    BY DEF Typed, TypeOK, Row
<1>1. /\ known' = [n \in Names |-> IF n \in seen THEN known[n] ELSE NoRow]
      /\ frames' = (frames \o Flush(queued, del)) \o <<Synced>>
    BY DEF ReconcileEnds
<1>2. known' \in [Names -> Row]
    BY <1>0, <1>1 DEF NoRow, Row, MaybeKey
<1>3. g \in Held /\ \A n \in Names : g[n] = known[n].key
    BY <1>0 DEF Keyed, Held
<1>4. IsFiniteSet(gone)
    BY WatchAssumption, FS_Subset
<1>8. /\ \A n \in Names : n \in gone => known'[n].key = NoKey /\ g[n] # NoKey
      /\ \A n \in Names : n \notin gone => known'[n].key = g[n]
    BY <1>0, <1>1, <1>3 DEF NoRow
<1>9. gone \subseteq Names
    OBVIOUS
<1> HIDE DEF gone
<1>10. /\ del \in Seq(gone)
       /\ \A x \in gone : \E i \in 1..Len(del) : del[i] = x
       /\ \A i, j \in 1..Len(del) : del[i] = del[j] => i = j
    BY <1>4, SetToSeqFacts
<1> HIDE DEF del, g
<1>11. del \in Seq(Names) /\ \A i \in 1..Len(del) : del[i] \in gone
    BY <1>9, <1>10
<1>12. ASSUME NEW n \in Names PROVE Leads(g, s, n, known'[n].key)
  <2>1. /\ s \in Seq(Event) /\ Len(s) = Len(del)
        /\ \A i \in 1..Len(del) : s[i].typ = "deleted" /\ s[i].name = del[i]
    BY <1>11, GoneFacts
  <2> HIDE DEF s
  <2>2. \A i \in 1..Len(s) : About(s[i], n) <=> del[i] = n
    BY <2>1 DEF About
  <2>3. \A i \in 1..Len(s) : About(s[i], n) => Tells(s[i], n, known'[n].key) /\ g[n] # known'[n].key
    BY <2>1, <2>2, <1>8, <1>11 DEF Tells
  <2>4. \A i, j \in 1..Len(s) : About(s[i], n) /\ About(s[j], n) => i = j
    BY <2>1, <2>2, <1>10
  <2>5. g[n] # known'[n].key => \E i \in 1..Len(s) : About(s[i], n)
    BY <2>1, <2>2, <1>8, <1>10
  <2> QED
    BY <1>3, <2>1, <2>3, <2>4, <2>5, OnceLeads
<1> QED
    BY <1>1, <1>2, <1>11, <1>12 DEF g

\* Drained hints send a frame, and what it tells of a name is what changes in
\* the belief, unless it both writes and deletes the name.
LEMMA HintsSend ==
    ASSUME Typed, NEW q \in HintQueues, Hints(q)
    PROVE  /\ known' \in [Names -> Row] /\ crossed \subseteq crossed' /\ crossed' \subseteq Names
           /\ \E r \in Seq(Ref), d \in Seq(Names) :
                /\ frames' = frames \o Flush(r, d)
                /\ \A n \in Names \ crossed' :
                        Leads(Keyed(known), Written(r) \o Gone(d), n, known'[n].key)
<1> DEFINE b == [known |-> known, refs |-> <<>>, deleted |-> <<>>]
           out == FoldLeft(ApplyHint, b, q)
           r == out.refs
           d == out.deleted
           g == Keyed(known)
<1>0. known \in [Names -> Row] /\ inFlight \subseteq Hint /\ crossed \subseteq Names
    BY DEF Typed, TypeOK, Hint
<1>1. b \in Batch /\ b.refs = <<>> /\ b.deleted = <<>> /\ b.known = known
    BY <1>0 DEF Batch
<1>2. q \in Seq(Hint)
  <2>1. PICK i \in 1..HintBatch : q \in [1..i -> inFlight]
    BY DEF HintQueues
  <2>2. q \in [1..i -> Hint] /\ i \in Nat
    BY <2>1, <1>0, WatchAssumption
  <2> QED
    BY <2>2
<1>3. /\ known' = out.known /\ frames' = frames \o Flush(r, d)
      /\ crossed' = crossed \cup ({r[i].name : i \in DOMAIN r} \cap ToSet(d))
    BY DEF Hints
<1> HIDE DEF b
<1>4. out \in Batch /\ Truthful(g, out)
    BY <1>1, <1>2, DrainTruthful
<1> HIDE DEF out
<1>5. out.known \in [Names -> Row] /\ r \in Seq(Ref) /\ d \in Seq(Names)
    BY <1>4 DEF Batch
<1>6. g \in Held /\ \A n \in Names : g[n] = known[n].key
    BY <1>0 DEF Keyed, Held, Row
<1>7. crossed \subseteq crossed' /\ crossed' \subseteq Names
  <2>1. ToSet(d) \subseteq Names
    BY <1>5 DEF ToSet
  <2> QED
    BY <1>0, <1>3, <2>1
<1> HIDE DEF g
<1>8. ASSUME NEW n \in Names \ crossed' PROVE Leads(g, Written(r) \o Gone(d), n, known'[n].key)
  <2>0. n \notin Wrote(out) \/ n \notin ToSet(d)
    BY <1>3 DEF Wrote
  <2> DEFINE u == Written(r)
             v == Gone(d)
             k == known'[n].key
  <2>1. /\ u \in Seq(Event) /\ Len(u) = Len(r) /\ \A i \in 1..Len(r) : u[i].name = r[i].name
        /\ v \in Seq(Event) /\ Len(v) = Len(d) /\ \A i \in 1..Len(d) : v[i].name = d[i]
    BY <1>5, WrittenFacts, GoneFacts
  <2>2. k \in MaybeKey
    BY <1>3, <1>5 DEF Row
  <2>3. /\ n \notin ToSet(d) => Leads(g, u, n, k)
        /\ n \notin Wrote(out) => Leads(g, v, n, k)
    BY <1>3, <1>4 DEF Truthful
  <2>4. DOMAIN r = 1..Len(r) /\ DOMAIN d = 1..Len(d)
    BY <1>5
  <2> HIDE DEF k
  <2>5. CASE n \notin ToSet(d)
    <3>1. \A i \in 1..Len(v) : ~ About(v[i], n)
        BY <2>1, <2>4, <2>5 DEF About, ToSet
    <3> DEFINE h == [o \in Names |-> k]
    <3>2. h \in Held /\ h[n] = k
        BY <2>2 DEF Held
    <3> HIDE DEF h, u, v
    <3>3. Leads(h, v, n, k)
        BY <2>1, <3>1, <3>2, LeadsAside
    <3>4. Leads(g, u, n, h[n])
        BY <2>3, <2>5, <3>2
    <3> QED
        BY <1>6, <2>1, <3>2, <3>3, <3>4, LeadsConcat DEF u, v, k
  <2>6. CASE n \notin Wrote(out)
    <3>1. \A i \in 1..Len(u) : ~ About(u[i], n)
        BY <2>1, <2>4, <2>6 DEF About, Wrote
    <3> HIDE DEF u, v
    <3>2. Leads(g, u, n, g[n])
        BY <1>6, <2>1, <3>1, LeadsAside
    <3>3. Leads(g, v, n, k)
        BY <2>3, <2>6
    <3> QED
        BY <1>6, <2>1, <3>2, <3>3, LeadsConcat DEF u, v, k
  <2> QED
    BY <2>0, <2>5, <2>6
<1> QED
    BY <1>3, <1>5, <1>7, <1>8 DEF g

-----------------------------------------------------------------------------
(***************************************************************************)
(* The steps.                                                              *)
(***************************************************************************)

\* What the reader of a sequence of events has in the end of its types.
LEMMA PendingType ==
    ASSUME NEW S, NEW s \in Seq(S)
    PROVE  ToSet(s) \subseteq S
    BY DEF ToSet

\* Nothing on its way, and the node believes what is held.
LEMMA Quiet ==
    ASSUME pending' = <<>>, frames' = <<>>, queued' = <<>>,
           \A n \in Names : held'[n] = known'[n].key
    PROVE  Belief'
<1>1. <<>> \in Seq(Event) /\ <<>> \in Seq(Frame) /\ <<>> \in Seq(Ref)
    OBVIOUS
<1>2. OnItsWay' = <<>>
    BY <1>1, OnItsWayIs, RoadType
<1> QED
    BY <1>2, LeadsEmpty DEF Belief

\* At first.
LEMMA WatchInvInit ==
    ASSUME Init
    PROVE  WatchInv
<1>1. NoRow \in Row /\ \A k \in Keys : [key |-> k, ver |-> 1] \in Row
    BY DEF NoRow, Row, MaybeKey
<1>2. catalog \in [Names -> Row] /\ known \in [Names -> Row]
    BY <1>1 DEF Init
<1>3. TypeOK
  <2>1. ToSet(<<>>) = {}
    BY DEF ToSet
  <2>2. 0 \in 0..(WatchAttempts - 1) /\ 1 \in 1..MaxCommits /\ 0 \in 0..MaxFaults
    BY WatchAssumption
  <2> QED
    BY <1>2, <2>1, <2>2 DEF TypeOK, Init, NoFrames
<1>4. Typed
    BY <1>3 DEF Typed, Init, NoFrames
<1>5. Session
    BY DEF Session, Init, NoFrames
<1> QED
    BY <1>4, <1>5 DEF WatchInv, FirstListing, FirstSync, SyncedNow, Belief, Init

\* Steps that leave the session alone.
LEMMA AsideStep ==
    ASSUME WatchInv, Typed', pc' = pc \/ "stream" \notin {pc, pc'},
           UNCHANGED <<known, scanVars, stream, frames, state, held, pending, synced, crossed>>,
           \A n \in Names : current[n] \subseteq current'[n],
           stream # "none" => \A n \in Names : catalog'[n].key \in current'[n]
    PROVE  WatchInv'
<1>1. Session'
    BY DEF WatchInv, Session, scanVars
<1>2. FirstListing'
    BY DEF WatchInv, FirstListing, scanVars
<1>3. FirstSync'
  <2> SUFFICES ASSUME stream = "live", ~ synced PROVE FirstSync'
    BY DEF FirstSync
  <2>1. PICK i \in 1..Len(frames) :
            /\ frames[i] = Synced /\ \A j \in 1..(i-1) : frames[j].typ = "changes"
            /\ \A n \in Names : \E k \in current[n] :
                    LastWord(held, Way(pending, SubSeq(frames, 1, i - 1)), n, k)
    BY DEF WatchInv, FirstSync
  <2>2. \A n \in Names : \E k \in current'[n] :
                    LastWord(held, Way(pending, SubSeq(frames, 1, i - 1)), n, k)
    BY <2>1
  <2> QED
    BY <2>1, <2>2 DEF FirstSync
<1>4. SyncedNow'
    BY DEF WatchInv, SyncedNow
<1>5. Belief'
  <2>1. OnItsWay' = OnItsWay
    BY DEF OnItsWay, scanVars
  <2> QED
    BY <2>1 DEF WatchInv, Belief
<1> QED
    BY <1>1, <1>2, <1>3, <1>4, <1>5 DEF WatchInv

\* A round begins.
LEMMA StartRoundStep ==
    ASSUME WatchInv, StartRound
    PROVE  WatchInv'
<1>1. todo' \in Seq(Nodes) /\ (pc' = "open" => todo' # <<>>)
  <2>1. CASE cancelled
    BY <2>1 DEF StartRound, WatchInv, Typed
  <2>2. CASE ~ cancelled
    <3>1. todo' \in Rankings
        BY <2>2 DEF StartRound
    <3>2. Cardinality(Nodes) \in Nat /\ Cardinality(Nodes) # 0
        BY WatchAssumption, FS_CardinalityType, FS_EmptySet
    <3>3. todo' \in [1..Cardinality(Nodes) -> Nodes]
        BY <3>1 DEF Rankings, SetToSeqs
    <3> QED
        BY <3>2, <3>3
  <2> QED
    BY <2>1, <2>2
<1>2. Typed'
  <2>1. ToSet(todo') \subseteq Nodes
    BY <1>1 DEF ToSet
  <2>2. 0 \in 0..(WatchAttempts - 1)
    BY WatchAssumption
  <2> QED
    BY <1>1, <2>1, <2>2 DEF StartRound, WatchInv, Typed, TypeOK, nodeVars, scanVars, historyVars
<1> QED
    BY <1>2, AsideStep DEF StartRound, WatchInv, Session, nodeVars, scanVars, historyVars

\* A pause is over.
LEMMA WaitStep ==
    ASSUME WatchInv, Wait
    PROVE  WatchInv'
<1>1. Typed'
    BY DEF Wait, WatchInv, Typed, TypeOK, nodeVars, scanVars, historyVars
<1> QED
    BY <1>1, AsideStep DEF Wait, WatchInv, Session, nodeVars, scanVars, historyVars

\* The ctx ends.
LEMMA CancelStep ==
    ASSUME WatchInv, Cancel
    PROVE  WatchInv'
<1>1. Typed'
    BY DEF Cancel, WatchInv, Typed, TypeOK, nodeVars, clientVars, scanVars, historyVars
<1> QED
    BY <1>1, AsideStep DEF Cancel, WatchInv, Session, nodeVars, clientVars, scanVars, historyVars

\* Nothing happens.
LEMMA StutterStep ==
    ASSUME WatchInv, UNCHANGED vars
    PROVE  WatchInv'
<1>1. Typed'
    BY DEF vars, WatchInv, Typed, TypeOK, nodeVars, clientVars, scanVars, historyVars
<1> QED
    BY <1>1, AsideStep DEF vars, WatchInv, Session, nodeVars, clientVars, scanVars, historyVars

\* A reference is written or deleted.
LEMMA CommitStep ==
    ASSUME WatchInv, NEW n \in Names, NEW k \in MaybeKey, Commit(n, k)
    PROVE  WatchInv'
<1>1. commits + 1 \in 1..MaxCommits /\ commits' = commits + 1 /\ commits' \in Nat
    BY WatchAssumption DEF Commit, WatchInv, Typed, TypeOK
<1>2. catalog' \in [Names -> Row]
  <2>1. [key |-> k, ver |-> commits'] \in Row
    BY <1>1 DEF Row
  <2> QED
    BY <2>1 DEF Commit, WatchInv, Typed, TypeOK
<1>3. inFlight' \subseteq [node : Nodes, name : Names, key : MaybeKey, ver : 1..MaxCommits]
    BY <1>1 DEF Commit, WatchInv, Typed, TypeOK
<1>4. /\ catalog'[n].key = k /\ \A m \in Names : m # n => catalog'[m] = catalog[m]
      /\ current \in [Names -> SUBSET MaybeKey]
    BY <1>2 DEF Commit, WatchInv, Typed, TypeOK
<1>5. /\ current' \in [Names -> SUBSET MaybeKey] /\ \A m \in Names : current[m] \subseteq current'[m]
      /\ stream # "none" => k \in current'[n]
    BY <1>4 DEF Commit
<1>6. Typed'
    BY <1>1, <1>2, <1>3, <1>5 DEF Commit, WatchInv, Typed, TypeOK, clientVars, scanVars
<1>7. stream # "none" => \A m \in Names : catalog'[m].key \in current'[m]
    BY <1>4, <1>5 DEF WatchInv, Session
<1> QED
    BY <1>5, <1>6, <1>7, AsideStep DEF Commit, clientVars

\* A stream is left.
LEMMA LeaveStep ==
    ASSUME WatchInv, NEW res, Leave(res), pending = <<>>, pc \in {"open", "stream"},
           UNCHANGED <<catalog, commits, inFlight, state, held, pending, cancelled>>,
           faults' \in 0..MaxFaults
    PROVE  WatchInv'
<1>1. known' \in [Names -> Row] /\ current' \in [Names -> SUBSET MaybeKey]
    BY DEF Leave, NoRow, Row, MaybeKey
<1>2. attempts' \in 0..(WatchAttempts - 1)
    BY WatchAssumption DEF Leave, WatchInv, Typed, TypeOK
<1>3. /\ pc' \in {"open", "ended", "pause", "backoff"}
      /\ todo' \in Seq(Nodes) /\ (pc' = "open" => todo' # <<>>)
  <2>0. todo \in Seq(Nodes) /\ todo # <<>>
    BY DEF WatchInv, Typed
  <2>1. CASE res = "retry" /\ attempts + 1 < WatchAttempts
    BY <2>0, <2>1 DEF Leave
  <2>2. CASE ~ (res = "retry" /\ attempts + 1 < WatchAttempts)
    <3>0. Tail(todo) \in Seq(Nodes) /\ <<>> \in Seq(Nodes)
        BY <2>0
    <3>1. todo' \in Seq(Nodes)
        BY <3>0, <2>2 DEF Leave
    <3>2. CASE res \in {"stop", "fatal"}
        BY <2>2, <3>1, <3>2 DEF Leave
    <3>3. CASE res = "served"
        BY <2>2, <3>1, <3>3 DEF Leave
    <3>4. CASE res \notin {"stop", "fatal", "served"}
        BY <2>2, <3>1, <3>4 DEF Leave
    <3> QED
        BY <3>2, <3>3, <3>4
  <2> QED
    BY <2>1, <2>2
<1>4. /\ frames' = <<>> /\ queued' = <<>> /\ listed' = {} /\ seen' = {} /\ crossed' = {} /\ stream' = "none"
      /\ synced' = FALSE /\ pending' = <<>>
    BY DEF Leave, NoFrames
<1>5. Typed'
  <2>1. ToSet(todo') \subseteq Nodes /\ ToSet(queued') = {}
    BY <1>3, <1>4 DEF ToSet
  <2>2. frames' \in Seq(Frame) /\ queued' \in Seq(Ref) /\ pending' \in Seq(Event) /\ ToSet(pending') = {}
    BY <1>4 DEF ToSet
  <2>3. TypeOK
    BY DEF WatchInv, Typed
  <2>4. TypeOK'
    BY <1>1, <1>2, <1>3, <1>4, <2>1, <2>2, <2>3 DEF TypeOK
  <2> QED
    BY <1>3, <2>2, <2>4 DEF Typed
<1>6. Session'
    BY <1>3, <1>4 DEF WatchInv, Session
<1>7. FirstListing' /\ FirstSync' /\ SyncedNow' /\ Belief'
    BY <1>4 DEF FirstListing, FirstSync, SyncedNow, Belief
<1> QED
    BY <1>5, <1>6, <1>7 DEF WatchInv

\* A stream that could not be opened.
LEMMA OpenFailsStep ==
    ASSUME WatchInv, OpenFails
    PROVE  WatchInv'
<1>1. pending = <<>>
    BY DEF OpenFails, WatchInv, Session, Typed, TypeOK
<1>2. faults' \in 0..MaxFaults
    BY WatchAssumption DEF OpenFails, WatchInv, Typed, TypeOK
<1> QED
    BY <1>1, <1>2, LeaveStep DEF OpenFails

\* An error frame, a stream that dies, a ctx that ended.
LEMMA EndStep ==
    ASSUME WatchInv, ErrFrame \/ StreamDies \/ StreamStops
    PROVE  WatchInv'
<1>1. faults' \in 0..MaxFaults
    BY WatchAssumption, SMTT(20) DEF ErrFrame, StreamDies, StreamStops, WatchInv, Typed, TypeOK
<1>2. CASE ErrFrame
    BY <1>1, <1>2, LeaveStep DEF ErrFrame
<1>3. CASE StreamDies
    BY <1>1, <1>3, LeaveStep DEF StreamDies
<1>4. CASE StreamStops
    BY <1>1, <1>4, LeaveStep DEF StreamStops
<1> QED
    BY <1>2, <1>3, <1>4

\* A stream is opened.
LEMMA OpenStep ==
    ASSUME WatchInv, Open
    PROVE  WatchInv'
<1>1. /\ pending = <<>> /\ frames = <<>> /\ queued = <<>> /\ stream = "none" /\ ~ synced
      /\ listed = {} /\ seen = {} /\ crossed = {} /\ state = held
    BY DEF Open, WatchInv, Session, Typed, TypeOK
<1>2. known' \in [Names -> Row] /\ \A n \in Names : known'[n].key = held[n] /\ known'[n].ver = 0
    BY <1>1 DEF Open, KnownList, WatchInv, Typed, TypeOK, Held, Row
<1>3. current' \in [Names -> SUBSET MaybeKey] /\ \A n \in Names : catalog[n].key \in current'[n]
    BY DEF Open, WatchInv, Typed, TypeOK, Row
<1>4. /\ stream' = "start" /\ pc' = "stream" /\ pc = "open"
      /\ UNCHANGED <<catalog, commits, inFlight, listed, seen, queued, frames, state, held, pending, synced,
                     todo, attempts, crossed, cancelled, faults>>
    BY DEF Open, scanVars
<1>5. Typed'
    BY <1>1, <1>2, <1>3, <1>4 DEF WatchInv, Typed, TypeOK
<1>6. Session'
    BY <1>1, <1>3, <1>4 DEF WatchInv, Session
<1>7. FirstListing' /\ FirstSync' /\ SyncedNow'
    BY <1>1, <1>2, <1>4 DEF FirstListing, FirstSync, SyncedNow
<1>8. Belief'
    BY <1>1, <1>2, <1>4, Quiet
<1> QED
    BY <1>5, <1>6, <1>7, <1>8 DEF WatchInv

\* A node refuses.
LEMMA RefuseStep ==
    ASSUME WatchInv, NEW code \in {"stale", "bad", "refused"}, Refuse(code)
    PROVE  WatchInv'
<1> DEFINE m == Err(code)
<1>1. /\ pending \in Seq(Event) /\ frames \in Seq(Frame) /\ queued \in Seq(Ref)
      /\ ~ synced /\ stream = "start"
    BY DEF Refuse, WatchInv, Session, Typed
<1>2. /\ stream' = "refused" /\ frames' = Append(frames, m)
      /\ UNCHANGED <<catalog, commits, inFlight, known, listed, seen, queued, state, held, pending, synced,
                     pc, todo, attempts, current, crossed, cancelled>>
    BY DEF Refuse, scanVars, clientVars, historyVars
<1>3. m \in Frame /\ m.typ = "err" /\ Word(m) = <<>>
    BY DEF Frame, Err, Word
<1>4. faults' \in 0..MaxFaults
    BY WatchAssumption DEF Refuse, WatchInv, Typed, TypeOK
<1> HIDE DEF m
<1>5. /\ frames' \in Seq(Frame) /\ Len(frames') = Len(frames) + 1 /\ Len(frames) \in Nat
      /\ frames'[Len(frames) + 1] = m /\ \A i \in 1..Len(frames) : frames'[i] = frames[i]
    BY <1>1, <1>2, <1>3
<1>6. Typed'
    BY <1>2, <1>4, <1>5 DEF WatchInv, Typed, TypeOK
<1>7. Session'
  <2>1. \A i \in 1..Len(frames') : frames'[i].typ # "synced"
    <3> SUFFICES ASSUME NEW i \in 1..Len(frames') PROVE frames'[i].typ # "synced"
        OBVIOUS
    <3>1. i \in 1..Len(frames) \/ i = Len(frames) + 1
        BY <1>5
    <3>2. CASE i \in 1..Len(frames)
        BY <3>2, <1>1, <1>5 DEF WatchInv, Session
    <3>3. CASE i = Len(frames) + 1
        BY <3>3, <1>3, <1>5
    <3> QED
        BY <3>1, <3>2, <3>3
  <2> QED
    BY <1>1, <1>2, <2>1 DEF WatchInv, Session
<1>8. FirstListing' /\ FirstSync' /\ SyncedNow'
    BY <1>2 DEF FirstListing, FirstSync, SyncedNow, WatchInv
<1>9. Belief'
  <2>0. Way(pending, Append(frames, m)) = Way(pending, frames) \o Word(m)
    BY <1>1, <1>3, WayAppend, Zenon
  <2>1. Way(pending, frames') = Way(pending, frames) \o <<>> /\ Way(pending, frames) \in Seq(Event)
    BY <1>1, <1>2, <1>3, <2>0, WayType, Zenon
  <2>2. Road(pending', frames', queued') = Road(pending, frames, queued)
    BY <1>2, <2>1 DEF Road
  <2>3. OnItsWay' = OnItsWay
    BY <1>1, <1>2, <1>5, <2>2, OnItsWayIs
  <2> QED
    BY <1>1, <1>2, <2>3 DEF WatchInv, Belief
<1> QED
    BY <1>6, <1>7, <1>8, <1>9 DEF WatchInv

\* A sequence of frames up to the i-th one, when the first is read.
LEMMA SubSeqTail ==
    ASSUME NEW S, NEW fs \in Seq(S), fs # <<>>, NEW i \in 2..Len(fs)
    PROVE  /\ SubSeq(fs, 1, i - 1) \in Seq(S) /\ SubSeq(fs, 1, i - 1) # <<>>
           /\ SubSeq(fs, 1, i - 1)[1] = fs[1]
           /\ Tail(SubSeq(fs, 1, i - 1)) = SubSeq(Tail(fs), 1, i - 2)
<1> DEFINE a == SubSeq(fs, 1, i - 1)
           b == SubSeq(Tail(fs), 1, i - 2)
<1>1. /\ a \in Seq(S) /\ Len(a) = i - 1 /\ a # <<>> /\ \A j \in 1..(i-1) : a[j] = fs[j]
    OBVIOUS
<1>2. Tail(fs) \in Seq(S) /\ Len(Tail(fs)) = Len(fs) - 1 /\ \A j \in 1..(Len(fs)-1) : Tail(fs)[j] = fs[j+1]
    OBVIOUS
<1>3. b \in Seq(S) /\ Len(b) = i - 2 /\ \A j \in 1..(i-2) : b[j] = fs[j+1]
  <2> DEFINE t == Tail(fs)
  <2>1. t \in Seq(S) /\ i - 2 \in 0..Len(t)
    BY <1>2
  <2> HIDE DEF t
  <2>2. SubSeq(t, 1, i - 2) \in Seq(S) /\ Len(SubSeq(t, 1, i - 2)) = i - 2
        /\ \A j \in 1..(i-2) : SubSeq(t, 1, i - 2)[j] = t[j]
    BY <2>1
  <2> QED
    BY <1>2, <2>2 DEF t
<1> HIDE DEF a, b
<1>4. Tail(a) \in Seq(S) /\ Len(Tail(a)) = i - 2 /\ \A j \in 1..(i-2) : Tail(a)[j] = a[j+1]
    BY <1>1
<1>5. \A j \in 1..(i-2) : Tail(a)[j] = b[j]
    BY <1>1, <1>3, <1>4
<1>6. Tail(a) = b
    BY <1>3, <1>4, <1>5, SeqEqual
<1> QED
    BY <1>1, <1>6 DEF a, b

\* The consumer takes an event.
LEMMA YieldStep ==
    ASSUME WatchInv, Yield
    PROVE  WatchInv'
<1>0. /\ pending \in Seq(Event) /\ pending # <<>> /\ frames \in Seq(Frame) /\ queued \in Seq(Ref)
      /\ held \in Held /\ state = held
    BY DEF WatchInv, Typed, TypeOK, Session, Yield
<1>1. pending[1] \in Event /\ Head(pending) = pending[1]
    BY <1>0
<1>2. pending' = Tail(pending) /\ Tail(pending) \in Seq(Event)
    BY <1>0 DEF Yield
<1>3. held' = Told(held, pending[1]) /\ state' = held'
  <2>1. CASE pending[1].typ = "change"
    BY <1>0, <1>1, <2>1 DEF Yield, Told
  <2>2. CASE pending[1].typ = "deleted"
    BY <1>0, <1>1, <2>2 DEF Yield, Told
  <2>3. CASE pending[1].typ = "synced"
    BY <1>0, <1>1, <2>3 DEF Yield, Told
  <2> QED
    BY <1>1, <2>1, <2>2, <2>3, EventFacts
<1>4. held' \in Held
    BY <1>0, <1>1, <1>3, ToldFacts
<1>5. UNCHANGED <<catalog, commits, inFlight, stream, known, listed, seen, queued, frames, synced, pc, todo,
                  attempts, current, crossed, cancelled, faults>>
    BY DEF Yield, nodeVars, scanVars, historyVars
<1>6. Typed'
  <2>1. ToSet(pending') \subseteq Event
    BY <1>2, PendingType
  <2> QED
    BY <1>2, <1>3, <1>4, <1>5, <2>1 DEF WatchInv, Typed, TypeOK
<1>7. Session' /\ FirstListing'
  <2>1. stream # "none"
    BY <1>0 DEF WatchInv, Session
  <2> QED
    BY <1>3, <1>5, <2>1 DEF WatchInv, Session, FirstListing
<1>8. FirstSync'
  <2> SUFFICES ASSUME ~ synced, stream = "live" PROVE FirstSync'
    BY <1>5 DEF FirstSync
  <2>1. PICK i \in 1..Len(frames) :
            /\ frames[i] = Synced /\ \A j \in 1..(i-1) : frames[j].typ = "changes"
            /\ \A n \in Names : \E k \in current[n] :
                    LastWord(held, Way(pending, SubSeq(frames, 1, i - 1)), n, k)
    BY DEF WatchInv, FirstSync
  <2> DEFINE fs == SubSeq(frames, 1, i - 1)
             w == Way(pending, fs)
  <2>2. fs \in Seq(Frame)
    BY <1>0
  <2> HIDE DEF fs
  <2>3. w \in Seq(Event) /\ w # <<>> /\ w[1] = pending[1] /\ Tail(w) = Way(pending', fs)
    BY <1>0, <1>2, <2>2, WayType
  <2> HIDE DEF w
  <2>4. ASSUME NEW n \in Names PROVE \E k \in current'[n] : LastWord(held', Way(pending', fs), n, k)
    <3>1. PICK k \in current[n] : LastWord(held, w, n, k)
        BY <2>1 DEF w, fs
    <3>2. LastWord(Told(held, w[1]), Tail(w), n, k)
        BY <1>0, <2>3, <3>1, LastWordTail
    <3> QED
        BY <3>1, <3>2, <2>3, <1>3, <1>5
  <2> QED
    BY <2>1, <2>4, <1>5 DEF FirstSync, fs
<1>9. SyncedNow'
  <2> SUFFICES ASSUME NEW i \in 1..Len(pending'), pending'[i].typ = "synced" PROVE FALSE
    BY DEF SyncedNow
  <2>1. pending'[i] = pending[i+1] /\ i + 1 \in 1..Len(pending) /\ i + 1 # 1
    BY <1>0, <1>2
  <2> QED
    BY <2>1, <1>0 DEF WatchInv, SyncedNow
<1>10. Belief'
  <2> SUFFICES ASSUME stream # "none", NEW n \in Names \ crossed
               PROVE  Leads(held', OnItsWay', n, known'[n].key)
    BY <1>5 DEF Belief
  <2> DEFINE w == OnItsWay
  <2>1. w \in Seq(Event) /\ w # <<>> /\ w[1] = pending[1] /\ OnItsWay' = Tail(w)
    <3>1. w = Road(pending, frames, queued) /\ OnItsWay' = Road(pending', frames, queued)
        BY <1>0, <1>2, <1>5, OnItsWayIs
    <3> HIDE DEF w
    <3> QED
        BY <1>0, <1>2, <3>1, RoadType
  <2>2. Leads(held, w, n, known[n].key)
    BY DEF WatchInv, Belief
  <2> HIDE DEF w
  <2>3. Leads(Told(held, w[1]), Tail(w), n, known[n].key)
    BY <1>0, <2>1, <2>2, LeadsTail
  <2> QED
    BY <1>3, <1>5, <2>1, <2>3
<1> QED
    BY <1>6, <1>7, <1>8, <1>9, <1>10 DEF WatchInv

\* A frame is read.
LEMMA NextFrameStep ==
    ASSUME WatchInv, NextFrame
    PROVE  WatchInv'
<1> DEFINE m == frames[1]
<1>0. /\ pending = <<>> /\ frames \in Seq(Frame) /\ frames # <<>> /\ m.typ # "err"
      /\ held \in Held /\ queued \in Seq(Ref)
    BY DEF WatchInv, Typed, TypeOK, NextFrame, NoFrames
<1>1. m \in Frame /\ frames' = Tail(frames) /\ Tail(frames) \in Seq(Frame) /\ 1 \in 1..Len(frames)
    BY <1>0 DEF NextFrame
<1>2. UNCHANGED <<catalog, commits, inFlight, stream, known, listed, seen, queued, state, held, pc, todo,
                  attempts, current, crossed, cancelled, faults>>
    BY DEF NextFrame, nodeVars, scanVars, historyVars
<1>3. m = Synced \/ m \in ChangesFrame
    BY <1>0, <1>1, FrameFacts
<1>4. Synced \in Event /\ Synced.typ = "synced"
    BY DEF Event, Synced
<1>5. /\ pending' = IF m.typ = "changes" THEN Word(m) ELSE IF synced THEN <<>> ELSE <<Synced>>
      /\ synced' = (synced \/ m.typ = "synced")
    BY DEF NextFrame, Word
<1>6. pending' \in Seq(Event)
    BY <1>1, <1>4, <1>5, FrameFacts
<1>7. Typed'
  <2>1. ToSet(pending') \subseteq Event
    BY <1>6, PendingType
  <2>2. synced' \in BOOLEAN
    BY <1>5
  <2> QED
    BY <1>1, <1>2, <1>6, <2>1, <2>2 DEF WatchInv, Typed, TypeOK
<1>8. Session'
  <2>1. \A i \in 1..Len(frames') : frames'[i] = frames[i+1] /\ i + 1 \in 1..Len(frames)
    BY <1>0, <1>1
  <2>2. \A i \in 1..Len(frames') : /\ frames'[i].typ = "synced" => stream = "live"
                                   /\ frames'[i].typ = "err" => stream = "refused"
    BY <2>1 DEF WatchInv, Session
  <2>3. stream # "none"
    BY <1>0 DEF WatchInv, Session
  <2>4. stream # "live" => ~ synced'
    BY <1>1, <1>5 DEF WatchInv, Session
  <2> QED
    BY <1>2, <2>2, <2>3, <2>4 DEF WatchInv, Session
<1>9. FirstListing'
    BY <1>2 DEF WatchInv, FirstListing
<1>10. ASSUME stream = "live", ~ synced
       PROVE  /\ m.typ # "synced" => FirstSync'
              /\ m.typ = "synced" => \A n \in Names : held[n] \in current[n]
  <2>1. PICK i \in 1..Len(frames) :
            /\ frames[i] = Synced /\ \A j \in 1..(i-1) : frames[j].typ = "changes"
            /\ \A n \in Names : \E k \in current[n] :
                    LastWord(held, Way(pending, SubSeq(frames, 1, i - 1)), n, k)
    BY <1>10 DEF WatchInv, FirstSync
  <2>2. CASE i = 1
    <3>1. SubSeq(frames, 1, i - 1) = <<>> /\ <<>> \in Seq(Frame) /\ <<>> \in Seq(Event)
        BY <2>2, <1>0
    <3>2. Way(pending, SubSeq(frames, 1, i - 1)) = <<>>
        BY <1>0, <3>1, WayType
    <3>3. \A n \in Names : held[n] \in current[n]
        BY <2>1, <3>2, LastWordEmpty
    <3> QED
        BY <2>1, <2>2, <3>3, <1>4
  <2>3. CASE i # 1
    <3>1. i \in 2..Len(frames) /\ 1 \in 1..(i-1)
        BY <2>3
    <3>2. m.typ = "changes"
        BY <2>1, <3>1
    <3> DEFINE fs == SubSeq(frames, 1, i - 1)
               gs == SubSeq(Tail(frames), 1, i - 2)
    <3>3. fs \in Seq(Frame) /\ fs # <<>> /\ fs[1] = m /\ Tail(fs) = gs
        BY <1>0, <3>1, SubSeqTail, Zenon
    <3> HIDE DEF fs, gs
    <3>4. Way(<<>>, fs) = Way(pending', gs)
      <4>1. Way(<<>>, fs) = Way(Word(fs[1]), Tail(fs))
        BY <3>3, WayTail, Zenon
      <4> QED
        BY <4>1, <3>2, <3>3, <1>5
    <3>5. ASSUME NEW n \in Names PROVE \E k \in current'[n] : LastWord(held', Way(pending', gs), n, k)
        BY <2>1, <3>4, <1>0, <1>2 DEF fs
    <3>6. /\ i - 1 \in 1..Len(frames') /\ frames'[i-1] = Synced /\ (i - 1) - 1 = i - 2
          /\ \A j \in 1..((i-1)-1) : frames'[j].typ = "changes"
      <4>1. \A j \in 1..(Len(frames)-1) : frames'[j] = frames[j+1]
        BY <1>0, <1>1
      <4>2. Len(frames') = Len(frames) - 1
        BY <1>0, <1>1
      <4> QED
        BY <2>1, <3>1, <4>1, <4>2
    <3>7. FirstSync'
      <4>1. SubSeq(frames', 1, (i - 1) - 1) = gs
        BY <1>1, <3>6 DEF gs
      <4> QED
        BY <3>5, <3>6, <4>1 DEF FirstSync
    <3> QED
        BY <3>2, <3>7
  <2> QED
    BY <2>2, <2>3
<1>11. FirstSync'
    BY <1>2, <1>5, <1>10 DEF FirstSync
<1>12. SyncedNow'
  <2>1. CASE m.typ = "changes"
    BY <2>1, <1>1, <1>5, FrameFacts DEF SyncedNow
  <2>2. CASE m.typ # "changes" /\ synced
    BY <2>2, <1>5 DEF SyncedNow
  <2>3. CASE m.typ # "changes" /\ ~ synced
    <3>1. m.typ = "synced"
        BY <2>3, <1>1, <1>3, <1>4, FrameFacts
    <3>2. stream = "live"
        BY <3>1, <1>1 DEF WatchInv, Session
    <3>3. pending' = <<Synced>> /\ synced'
        BY <2>3, <3>1, <1>5
    <3>4. Len(pending') = 1
        BY <3>3
    <3> QED
        BY <2>3, <3>1, <3>2, <3>3, <3>4, <1>2, <1>10 DEF SyncedNow
  <2> QED
    BY <2>1, <2>2, <2>3
<1>13. Belief'
  <2> SUFFICES ASSUME stream # "none", NEW n \in Names \ crossed
               PROVE  Leads(held, OnItsWay', n, known[n].key)
    BY <1>2 DEF Belief
  <2>1. Leads(held, OnItsWay, n, known[n].key)
    BY DEF WatchInv, Belief
  <2>2. OnItsWay = Road(<<>>, frames, queued) /\ OnItsWay' = Road(pending', frames', queued)
    BY <1>0, <1>1, <1>2, <1>6, OnItsWayIs
  <2>3. Road(<<>>, frames, queued) = Road(Word(m), frames', queued)
    BY <1>0, <1>1, RoadTail, Zenon
  <2>4. CASE m.typ = "changes" \/ synced
    <3>1. pending' = Word(m)
        BY <2>4, <1>5 DEF Word
    <3> QED
        BY <2>1, <2>2, <2>3, <3>1
  <2>5. CASE m.typ # "changes" /\ ~ synced
    <3>1. pending' = <<Synced>> /\ Word(m) = <<>>
        BY <2>5, <1>5 DEF Word
    <3>2. OnItsWay = Road(<<>>, frames', queued)
        BY <2>2, <2>3, <3>1
    <3>3. OnItsWay' = <<Synced>> \o OnItsWay
        BY <1>0, <1>1, <2>2, <3>1, <3>2, RoadSynced
    <3>4. OnItsWay \in Seq(Event)
      <4>1. <<>> \in Seq(Event)
        OBVIOUS
      <4> QED
        BY <4>1, <1>0, <2>2, RoadType, Zenon
    <3> DEFINE w == OnItsWay
    <3>5. w \in Seq(Event) /\ Leads(held, w, n, known[n].key) /\ OnItsWay' = <<Synced>> \o w
        BY <2>1, <3>3, <3>4
    <3> HIDE DEF w
    <3> QED
        BY <1>0, <3>5, LeadsSynced
  <2> QED
    BY <2>4, <2>5
<1> QED
    BY <1>7, <1>8, <1>9, <1>11, <1>12, <1>13 DEF WatchInv

\* A stream that is past its first listing sends more frames.
LEMMA MoreFrames ==
    ASSUME Session, FirstSync, SyncedNow, frames \in Seq(Frame), frames' \in Seq(Frame), stream = "live",
           UNCHANGED <<stream, held, pending, synced, current>>,
           Len(frames') >= Len(frames), \A i \in 1..Len(frames) : frames'[i] = frames[i]
    PROVE  FirstSync' /\ SyncedNow'
<1>1. SyncedNow'
    BY DEF SyncedNow
<1>2. FirstSync'
  <2> SUFFICES ASSUME ~ synced PROVE FirstSync'
    BY DEF FirstSync
  <2>1. PICK i \in 1..Len(frames) :
            /\ frames[i] = Synced /\ \A j \in 1..(i-1) : frames[j].typ = "changes"
            /\ \A n \in Names : \E k \in current[n] :
                    LastWord(held, Way(pending, SubSeq(frames, 1, i - 1)), n, k)
    BY DEF FirstSync
  <2>2. i \in 1..Len(frames') /\ frames'[i] = Synced /\ \A j \in 1..(i-1) : frames'[j].typ = "changes"
    BY <2>1
  <2>3. SubSeq(frames', 1, i - 1) = SubSeq(frames, 1, i - 1)
    <3> DEFINE a == SubSeq(frames', 1, i - 1)
               b == SubSeq(frames, 1, i - 1)
    <3>1. i - 1 \in 0..Len(frames) /\ i - 1 \in 0..Len(frames')
        BY <2>2
    <3>2. a \in Seq(Frame) /\ Len(a) = i - 1 /\ \A j \in 1..(i-1) : a[j] = frames'[j]
        BY <3>1
    <3>3. b \in Seq(Frame) /\ Len(b) = i - 1 /\ \A j \in 1..(i-1) : b[j] = frames[j]
        BY <3>1
    <3>4. \A j \in 1..(i-1) : a[j] = b[j]
        BY <3>1, <3>2, <3>3
    <3> HIDE DEF a, b
    <3> QED
        BY <3>2, <3>3, <3>4, SeqEqual DEF a, b
  <2> QED
    BY <2>1, <2>2, <2>3 DEF FirstSync
<1> QED
    BY <1>1, <1>2

\* More is on its way, and it leads from what was believed to what is.
LEMMA TellsMore ==
    ASSUME Typed, Belief, stream # "none", held' = held, crossed \subseteq crossed',
           OnItsWay \in Seq(Event), NEW s \in Seq(Event), OnItsWay' = OnItsWay \o s,
           \A n \in Names \ crossed' : Leads(Keyed(known), s, n, known'[n].key)
    PROVE  \A n \in Names \ crossed' : Leads(held', OnItsWay', n, known'[n].key)
<1> SUFFICES ASSUME NEW n \in Names \ crossed' PROVE Leads(held, OnItsWay', n, known'[n].key)
    OBVIOUS
<1> DEFINE g == Keyed(known)
           w == OnItsWay
<1>1. held \in Held /\ g \in Held /\ g[n] = known[n].key
    BY DEF Typed, TypeOK, Keyed, Held, Row
<1>2. Leads(held, w, n, g[n])
    BY <1>1 DEF Belief
<1>3. Leads(g, s, n, known'[n].key) /\ w \in Seq(Event) /\ OnItsWay' = w \o s
    OBVIOUS
<1> HIDE DEF g, w
<1> QED
    BY <1>1, <1>2, <1>3, LeadsConcat

\* A page is listed: its references join the batch, which may be flushed.
LEMMA PageTells ==
    ASSUME NEW p \in Seq(Event), NEW fs \in Seq(Frame), NEW q \in Seq(Ref), NEW new \in Seq(Ref)
    PROVE  /\ Road(p, fs, q \o new) = Road(p, fs, q) \o Written(new)
           /\ Road(p, Append(fs, Changes(q \o new, <<>>)), <<>>) = Road(p, fs, q) \o Written(new)
<1> DEFINE u == q \o new
           w == Way(p, fs)
           a == Written(q)
           b == Written(new)
           d == <<>>
<1>1. u \in Seq(Ref) /\ <<>> \in Seq(Ref) /\ d \in Seq(Names)
    OBVIOUS
<1>2. w \in Seq(Event) /\ a \in Seq(Event) /\ b \in Seq(Event) /\ Written(u) = a \o b
    BY WayType, WrittenFacts, WrittenConcat
<1>3. Written(<<>>) = <<>> /\ Gone(d) = <<>>
    BY NothingTold
<1> HIDE DEF u, d
<1>4. Changes(u, d) \in Frame /\ Way(p, Append(fs, Changes(u, d))) = Road(p, fs, u) \o <<>>
  <2>1. Changes(u, d) \in Frame /\ Way(p, Append(fs, Changes(u, d))) = Road(p, fs, u) \o Gone(d)
    BY <1>1, FlushedFrame, Zenon
  <2> QED
    BY <1>3, <2>1
<1>5. Road(p, fs, u) \in Seq(Event)
    BY <1>1, RoadType
<1>6. Road(p, Append(fs, Changes(u, d)), <<>>) = Road(p, fs, u)
    BY <1>3, <1>4, <1>5 DEF Road
<1> HIDE DEF w, a, b
<1>7. w \o (a \o b) = (w \o a) \o b
    BY <1>2, ConcatAssoc
<1>8. Road(p, fs, u) = Road(p, fs, q) \o b
    BY <1>2, <1>7 DEF Road, w, a, b
<1> QED
    BY <1>6, <1>8 DEF u, b, d

\* A page of the catalog is listed.
LEMMA ReconcilePageStep ==
    ASSUME WatchInv, NEW page \in SUBSET (Names \ listed), page # {}, ReconcilePage(page)
    PROVE  WatchInv'
<1>0. /\ pending \in Seq(Event) /\ frames \in Seq(Frame) /\ queued \in Seq(Ref)
      /\ stream \in {"start", "live"}
      /\ catalog \in [Names -> Row] /\ known \in [Names -> Row]
      /\ listed \subseteq Names /\ seen \subseteq listed /\ TypeOK /\ Typed
    BY DEF WatchInv, Typed, TypeOK, ReconcilePage
<1>1. /\ UNCHANGED <<catalog, commits, inFlight, stream, state, held, pending, synced, pc, todo, attempts,
                     current, crossed, cancelled, faults>>
      /\ listed' = listed \cup page
      /\ seen' = seen \cup {n \in page : catalog[n].key # NoKey}
    BY DEF ReconcilePage, Seen, clientVars, historyVars
<1>2. known' \in [Names -> Row]
    BY <1>0, PageSends
<1>3. PICK new \in Seq(Ref) :
        /\ \/ queued' = queued \o new /\ frames' = frames
           \/ queued' = <<>> /\ frames' = Append(frames, Changes(queued \o new, <<>>))
        /\ \A n \in Names : Leads(Keyed(known), Written(new), n, known'[n].key)
    BY <1>0, PageSends
<1> DEFINE m == Changes(queued \o new, <<>>)
<1>4. m \in Frame /\ m.typ = "changes"
  <2>1. queued \o new \in Seq(Ref) /\ <<>> \in Seq(Names)
    BY <1>0
  <2> QED
    BY <2>1 DEF Frame, ChangesFrame, Changes
<1> HIDE DEF m
<1>5. /\ queued' \in Seq(Ref) /\ frames' \in Seq(Frame) /\ Len(frames') >= Len(frames)
      /\ \A i \in 1..Len(frames) : frames'[i] = frames[i]
      /\ \A i \in 1..Len(frames') : i \notin 1..Len(frames) => frames'[i].typ = "changes"
  <2>1. CASE queued' = queued \o new /\ frames' = frames
    BY <2>1, <1>0
  <2>2. CASE queued' = <<>> /\ frames' = Append(frames, m)
    BY <2>2, <1>0, <1>4
  <2> QED
    BY <1>3, <2>1, <2>2 DEF m
<1>6. Typed'
  <2>1. ToSet(queued') \subseteq [name : Names, key : Keys]
    BY <1>5, PendingType DEF Ref
  <2>2. seen' \subseteq listed' /\ listed' \subseteq Names
    BY <1>0, <1>1
  <2>3. TypeOK'
    BY <1>0, <1>1, <1>2, <2>1, <2>2 DEF TypeOK
  <2> QED
    BY <1>0, <1>1, <1>5, <2>3 DEF Typed
<1>7. Session'
  <2>1. \A i \in 1..Len(frames') : /\ frames'[i].typ = "synced" => stream = "live"
                                   /\ frames'[i].typ = "err" => stream = "refused"
    BY <1>5 DEF WatchInv, Session
  <2>2. listed' # {}
    BY <1>1
  <2> QED
    BY <1>0, <1>1, <2>1, <2>2 DEF WatchInv, Session
<1>8. FirstListing'
  <2> SUFFICES ASSUME stream = "start", NEW n \in Names
               PROVE  /\ n \in seen' => known'[n].key \in current[n]
                      /\ n \in listed' \ seen' => NoKey \in current[n]
                      /\ n \notin seen' => known'[n].ver = 0
    BY <1>1 DEF FirstListing
  <2>1. /\ n \in seen => known[n].key \in current[n]
        /\ n \in listed \ seen => NoKey \in current[n]
        /\ n \notin seen => known[n].ver = 0
        /\ catalog[n].key \in current[n]
    BY DEF WatchInv, FirstListing, Session
  <2>2. CASE n \in page /\ catalog[n].key # NoKey
    <3>1. known[n].ver = 0 /\ catalog[n].ver \in Nat
        BY <1>0, <2>1, <2>2 DEF Row
    <3>2. ~ Stale(n)
        BY <3>1 DEF Stale
    <3>3. known'[n] = catalog[n]
        BY <2>2, <3>2 DEF ReconcilePage
    <3> QED
        BY <1>1, <2>1, <2>2, <3>3
  <2>3. CASE ~ (n \in page /\ catalog[n].key # NoKey)
    <3>1. known'[n] = known[n]
        BY <2>3 DEF ReconcilePage
    <3> QED
        BY <1>1, <2>1, <2>3, <3>1
  <2> QED
    BY <2>2, <2>3
<1>9. FirstSync' /\ SyncedNow'
  <2>1. CASE stream = "live"
    BY <2>1, <1>0, <1>1, <1>5, MoreFrames DEF WatchInv
  <2>2. CASE stream = "start"
    BY <2>2, <1>1 DEF WatchInv, FirstSync, SyncedNow
  <2> QED
    BY <1>0, <2>1, <2>2
<1>10. Belief'
  <2>1. /\ OnItsWay = Road(pending, frames, queued) /\ OnItsWay' = Road(pending, frames', queued')
        /\ Road(pending, frames, queued) \in Seq(Event)
    BY <1>0, <1>1, <1>5, OnItsWayIs, RoadType
  <2>2. Road(pending, frames', queued') = Road(pending, frames, queued) \o Written(new)
    <3>1. /\ Road(pending, frames, queued \o new) = Road(pending, frames, queued) \o Written(new)
          /\ Road(pending, Append(frames, Changes(queued \o new, <<>>)), <<>>)
                = Road(pending, frames, queued) \o Written(new)
        BY <1>0, PageTells
    <3> QED
        BY <1>3, <3>1, Zenon
  <2>3. Written(new) \in Seq(Event)
    BY WrittenFacts
  <2>4. OnItsWay \in Seq(Event) /\ OnItsWay' = OnItsWay \o Written(new)
    BY <2>1, <2>2
  <2>5. \A n \in Names \ crossed' : Leads(held', OnItsWay', n, known'[n].key)
    <3>1. stream # "none" /\ held' = held /\ crossed \subseteq crossed' /\ Belief
        BY <1>0, <1>1 DEF WatchInv
    <3>2. \A n \in Names \ crossed' : Leads(Keyed(known), Written(new), n, known'[n].key)
        BY <1>3
    <3> QED
        BY <1>0, <2>3, <2>4, <3>1, <3>2, TellsMore
  <2> QED
    BY <2>5 DEF Belief
<1> QED
    BY <1>6, <1>7, <1>8, <1>9, <1>10 DEF WatchInv

\* The end of a listing: the frame of the batch and of what is gone, and the
\* heartbeat.
LEMMA ReconcileEndsStep ==
    ASSUME WatchInv, ReconcileEnds
    PROVE  WatchInv'
<1>0. /\ pending \in Seq(Event) /\ frames \in Seq(Frame) /\ queued \in Seq(Ref)
      /\ stream \in {"start", "live"}
      /\ known \in [Names -> Row] /\ held \in Held /\ TypeOK /\ Typed
    BY DEF WatchInv, Typed, TypeOK, ReconcileEnds
<1>1. /\ UNCHANGED <<catalog, commits, inFlight, state, held, pending, synced, pc, todo, attempts,
                     current, crossed, cancelled, faults>>
      /\ listed = Names /\ listed' = {} /\ seen' = {} /\ queued' = <<>> /\ stream' = "live"
      /\ \A n \in Names : known'[n] = IF n \in seen THEN known[n] ELSE NoRow
    BY DEF ReconcileEnds, clientVars, historyVars
<1>2. known' \in [Names -> Row]
    BY <1>0, EndSends
<1>3. PICK del \in Seq(Names) :
        /\ frames' = (frames \o Flush(queued, del)) \o <<Synced>>
        /\ \A n \in Names : Leads(Keyed(known), Gone(del), n, known'[n].key)
    BY <1>0, EndSends
<1> DEFINE F == frames \o Flush(queued, del)
<1>4. /\ F \in Seq(Frame) /\ Len(F) >= Len(frames) /\ Len(frames) \in Nat /\ Len(F) \in Nat
      /\ \A i \in 1..Len(frames) : F[i] = frames[i]
      /\ \A i \in 1..Len(F) : i \notin 1..Len(frames) => F[i].typ = "changes"
      /\ Way(pending, F) = Road(pending, frames, queued) \o Gone(del)
    BY <1>0, FlushFacts
<1>5. Synced \in Frame /\ Synced.typ = "synced" /\ Word(Synced) = <<>>
    BY DEF Frame, Synced, Word
<1>6. frames' = F \o <<Synced>>
    BY <1>3
<1> HIDE DEF F
<1>7. /\ frames' = Append(F, Synced) /\ frames' \in Seq(Frame) /\ Len(frames') = Len(F) + 1
      /\ frames'[Len(F) + 1] = Synced /\ \A i \in 1..Len(F) : frames'[i] = F[i]
    BY <1>4, <1>5, <1>6
<1>8. Typed'
  <2>1. ToSet(queued') = {} /\ queued' \in Seq(Ref)
    BY <1>1 DEF ToSet
  <2>2. TypeOK'
    BY <1>0, <1>1, <1>2, <2>1 DEF TypeOK
  <2> QED
    BY <1>0, <1>1, <1>7, <2>1, <2>2 DEF Typed
<1>9. Session'
  <2>1. \A i \in 1..Len(frames') : frames'[i].typ # "err"
    <3> SUFFICES ASSUME NEW i \in 1..Len(frames') PROVE frames'[i].typ # "err"
        OBVIOUS
    <3>1. CASE i = Len(F) + 1
        BY <3>1, <1>5, <1>7
    <3>2. CASE i \in 1..Len(F) /\ i \notin 1..Len(frames)
        BY <3>2, <1>4, <1>7
    <3>3. CASE i \in 1..Len(frames)
      <4>1. frames'[i] = frames[i]
        BY <3>3, <1>4, <1>7
      <4>2. frames[i].typ = "err" => stream = "refused"
        BY <3>3 DEF WatchInv, Session
      <4> QED
        BY <4>1, <4>2, <1>0
    <3> QED
        BY <3>1, <3>2, <3>3, <1>4, <1>7
  <2>2. pc = "stream" /\ stream # "none"
    BY <1>0 DEF WatchInv, Session
  <2>3. state = held /\ \A n \in Names : catalog[n].key \in current[n]
    BY <2>2 DEF WatchInv, Session
  <2> QED
    BY <1>1, <2>1, <2>2, <2>3 DEF Session
<1>10. FirstListing'
    BY <1>1 DEF FirstListing
<1> DEFINE w == Road(pending, frames, queued)
           s == Gone(del)
<1>11. OnItsWay = w /\ w \in Seq(Event) /\ s \in Seq(Event) /\ w \o s \in Seq(Event)
    BY <1>0, OnItsWayIs, RoadType, GoneFacts
<1>12. OnItsWay' = w \o s
  <2>0. <<>> \in Seq(Ref)
    OBVIOUS
  <2>1. OnItsWay' = Road(pending, frames', <<>>)
    BY <1>0, <1>1, <1>7, <2>0, OnItsWayIs
  <2>2. Way(pending, Append(F, Synced)) = Way(pending, F) \o <<>>
    BY <1>0, <1>4, <1>5, WayAppend, Zenon
  <2> HIDE DEF w, s
  <2>3. Way(pending, frames') = (w \o s) \o <<>>
    BY <1>4, <1>7, <2>2 DEF w, s
  <2>4. Road(pending, frames', <<>>) = ((w \o s) \o <<>>) \o <<>>
    BY <2>3, NothingTold DEF Road
  <2> QED
    BY <1>11, <2>1, <2>4
<1>13. \A n \in Names \ crossed' : Leads(held', OnItsWay', n, known'[n].key)
  <2>1. stream # "none" /\ held' = held /\ crossed \subseteq crossed' /\ Belief
    BY <1>0, <1>1 DEF WatchInv
  <2>2. \A n \in Names \ crossed' : Leads(Keyed(known), s, n, known'[n].key)
    BY <1>3
  <2>3. OnItsWay \in Seq(Event) /\ OnItsWay' = OnItsWay \o s
    BY <1>11, <1>12
  <2> HIDE DEF s
  <2> QED
    BY <1>0, <1>11, <2>1, <2>2, <2>3, TellsMore
<1>14. Belief'
    BY <1>13 DEF Belief
<1>15. FirstSync' /\ SyncedNow'
  <2>1. CASE stream = "live"
    <3>1. Len(frames') >= Len(frames) /\ \A i \in 1..Len(frames) : frames'[i] = frames[i]
        BY <1>4, <1>7
    <3> QED
        BY <2>1, <3>1, <1>0, <1>1, <1>7, MoreFrames DEF WatchInv
  <2>2. CASE stream = "start"
    <3>1. SyncedNow'
        BY <1>1 DEF WatchInv, SyncedNow
    <3> DEFINE i == Len(F) + 1
    <3>2. i \in 1..Len(frames') /\ frames'[i] = Synced /\ i - 1 = Len(F)
        BY <1>4, <1>7
    <3>3. \A j \in 1..(i-1) : frames'[j].typ = "changes"
      <4> SUFFICES ASSUME NEW j \in 1..Len(F) PROVE F[j].typ = "changes"
        BY <1>7, <3>2
      <4>1. CASE j \in 1..Len(frames)
        <5>1. frames[j] \in Frame /\ frames[j].typ # "synced" /\ frames[j].typ # "err"
            BY <4>1, <2>2, <1>0 DEF WatchInv, Session
        <5> QED
            BY <5>1, <4>1, <1>4, FrameFacts
      <4>2. CASE j \notin 1..Len(frames)
        BY <4>2, <1>4
      <4> QED
        BY <4>1, <4>2
    <3>4. SubSeq(frames', 1, i - 1) = F
      <4> DEFINE a == SubSeq(frames', 1, Len(F))
      <4>1. Len(F) \in 0..Len(frames')
        BY <1>4, <1>7
      <4>2. a \in Seq(Frame) /\ Len(a) = Len(F) /\ \A j \in 1..Len(F) : a[j] = frames'[j]
        BY <4>1, <1>7
      <4>3. \A j \in 1..Len(F) : a[j] = F[j]
        BY <4>2, <1>7
      <4> HIDE DEF a
      <4>4. a = F
        BY <4>2, <4>3, <1>4, SeqEqual
      <4> QED
        BY <4>4, <3>2 DEF a
    <3>5. ASSUME NEW n \in Names
          PROVE  \E k \in current'[n] : LastWord(held', Way(pending', SubSeq(frames', 1, i - 1)), n, k)
      <4>1. known'[n].key \in current[n]
        BY <2>2, <1>1 DEF WatchInv, FirstListing, NoRow
      <4>2. crossed' = {}
        BY <2>2, <1>1 DEF WatchInv, Session
      <4>3. LastWord(held', w \o s, n, known'[n].key)
        BY <4>2, <1>12, <1>13 DEF Leads
      <4>4. Way(pending', SubSeq(frames', 1, i - 1)) = w \o s
        BY <3>4, <1>1, <1>4
      <4> HIDE DEF i
      <4> QED
        BY <4>1, <4>3, <4>4, <1>1, Zenon
    <3> HIDE DEF i
    <3>6. FirstSync'
        BY <3>2, <3>3, <3>5 DEF FirstSync
    <3> QED
        BY <3>1, <3>6
  <2> QED
    BY <1>0, <2>1, <2>2
<1> QED
    BY <1>8, <1>9, <1>10, <1>14, <1>15 DEF WatchInv

\* Hints are drained.
LEMMA HintsStep ==
    ASSUME WatchInv, NEW q \in HintQueues, Hints(q)
    PROVE  WatchInv'
<1>0. /\ pending \in Seq(Event) /\ frames \in Seq(Frame) /\ queued = <<>> /\ stream = "live"
      /\ known \in [Names -> Row] /\ held \in Held /\ TypeOK /\ Typed
    BY DEF WatchInv, Typed, TypeOK, Session, Hints
<1>1. /\ UNCHANGED <<catalog, commits, stream, listed, seen, queued, state, held, pending, synced, pc, todo,
                     attempts, current, cancelled, faults>>
      /\ inFlight' \subseteq inFlight
    BY DEF Hints, scanVars, clientVars
<1>2. known' \in [Names -> Row] /\ crossed \subseteq crossed' /\ crossed' \subseteq Names
    BY <1>0, HintsSend
<1>3. PICK r \in Seq(Ref), d \in Seq(Names) :
        /\ frames' = frames \o Flush(r, d)
        /\ \A n \in Names \ crossed' : Leads(Keyed(known), Written(r) \o Gone(d), n, known'[n].key)
    BY <1>0, HintsSend
<1>4. /\ frames' \in Seq(Frame) /\ Len(frames') >= Len(frames)
      /\ \A i \in 1..Len(frames) : frames'[i] = frames[i]
      /\ \A i \in 1..Len(frames') : i \notin 1..Len(frames) => frames'[i].typ = "changes"
      /\ Way(pending, frames') = Road(pending, frames, r) \o Gone(d)
  <2> DEFINE F == frames \o Flush(r, d)
  <2>1. /\ F \in Seq(Frame) /\ Len(F) >= Len(frames)
        /\ \A i \in 1..Len(frames) : F[i] = frames[i]
        /\ \A i \in 1..Len(F) : i \notin 1..Len(frames) => F[i].typ = "changes"
        /\ Way(pending, F) = Road(pending, frames, r) \o Gone(d)
    BY <1>0, FlushFacts
  <2>2. frames' = F
    BY <1>3
  <2> HIDE DEF F
  <2> QED
    BY <2>1, <2>2
<1>5. Typed'
  <2>1. TypeOK'
    BY <1>0, <1>1, <1>2 DEF TypeOK
  <2> QED
    BY <1>0, <1>1, <1>4, <2>1 DEF Typed
<1>6. Session' /\ FirstListing'
  <2>1. \A i \in 1..Len(frames') : /\ frames'[i].typ = "synced" => stream = "live"
                                   /\ frames'[i].typ = "err" => stream = "refused"
    BY <1>4 DEF WatchInv, Session
  <2> QED
    BY <1>0, <1>1, <2>1 DEF WatchInv, Session, FirstListing
<1>7. FirstSync' /\ SyncedNow'
    BY <1>0, <1>1, <1>4, MoreFrames DEF WatchInv
<1>8. Belief'
  <2> DEFINE w == Way(pending, frames)
             u == Written(r)
             v == Gone(d)
             s == u \o v
  <2>1. w \in Seq(Event) /\ u \in Seq(Event) /\ v \in Seq(Event)
    BY <1>0, WayType, WrittenFacts, GoneFacts
  <2>2. <<>> \in Seq(Ref) /\ Written(<<>>) = <<>>
    BY NothingTold
  <2>3. OnItsWay = w \o <<>> /\ OnItsWay' = ((w \o u) \o v) \o <<>>
    BY <1>0, <1>1, <1>4, <2>2, OnItsWayIs DEF Road
  <2> HIDE DEF w, u, v
  <2>4. OnItsWay \in Seq(Event) /\ s \in Seq(Event) /\ OnItsWay' = OnItsWay \o s
    <3>1. w \o <<>> = w /\ ((w \o u) \o v) \o <<>> = (w \o u) \o v /\ s \in Seq(Event)
        BY <2>1
    <3>2. (w \o u) \o v = w \o (u \o v)
        BY <2>1, ConcatAssoc
    <3> QED
        BY <2>1, <2>3, <3>1, <3>2
  <2>5. stream # "none" /\ held' = held /\ Belief
    BY <1>0, <1>1 DEF WatchInv
  <2>6. \A n \in Names \ crossed' : Leads(Keyed(known), s, n, known'[n].key)
    BY <1>3 DEF u, v
  <2> HIDE DEF s
  <2>7. \A n \in Names \ crossed' : Leads(held', OnItsWay', n, known'[n].key)
    BY <1>0, <1>2, <2>4, <2>5, <2>6, TellsMore
  <2> QED
    BY <2>7 DEF Belief
<1> QED
    BY <1>5, <1>6, <1>7, <1>8 DEF WatchInv

\* Every step keeps the invariant.
LEMMA WatchStep ==
    ASSUME WatchInv, [Next]_vars
    PROVE  WatchInv'
<1>1. CASE Generator
    BY <1>1, StartRoundStep, OpenStep, OpenFailsStep, YieldStep, NextFrameStep, EndStep, WaitStep
    DEF Generator
<1>2. CASE Cluster
    BY <1>2, CommitStep, HintsStep, RefuseStep DEF Cluster
<1>3. CASE Reconcile
    BY <1>3, ReconcilePageStep, ReconcileEndsStep DEF Reconcile
<1>4. CASE StreamDies \/ Cancel
    BY <1>4, EndStep, CancelStep
<1>5. CASE UNCHANGED vars
    BY <1>5, StutterStep
<1> QED
    BY <1>1, <1>2, <1>3, <1>4, <1>5 DEF Next

\* The two sides of a session agree: until the first synced event there is on
\* its way exactly what the first listing of the stream sent, and all that is
\* on its way leads, name by name and with no event twice, to what the stream
\* believes (watch_open, WatchSession.next, the node's reconcile and
\* apply_hint), but for names that one frame wrote and deleted.
THEOREM WatchInvariant == Spec => []WatchInv
<1>1. Init => WatchInv
    BY WatchInvInit
<1>2. WatchInv /\ [Next]_vars => WatchInv'
    BY WatchStep
<1> QED
    BY <1>1, <1>2, PTL DEF Spec

\* When a session hands out its first synced event, the consumer holds for
\* each name what the catalog held at a moment of this stream
\* (WatchSession.next): however the listing was cut into pages, hints were
\* lost, batched or late, and whatever changed while the client was away.
THEOREM WatchSyncedIsCurrent == Spec => []SyncedIsCurrent
<1>1. WatchInv => SyncedIsCurrent
  <2> SUFFICES ASSUME WatchInv, pending # <<>>, Head(pending).typ = "synced"
               PROVE  \A n \in Names : held[n] \in current[n]
    BY DEF SyncedIsCurrent
  <2>1. pending \in Seq(Event)
    BY DEF WatchInv, Typed
  <2>2. 1 \in 1..Len(pending) /\ pending[1].typ = "synced"
    BY <2>1
  <2> QED
    BY <2>2 DEF WatchInv, SyncedNow
<1> QED
    BY <1>1, WatchInvariant, PTL

\* What the node believes its client holds (refState, fake.rs) is what the
\* consumer will hold when it has taken every event on its way, across
\* reconnects, pages, lost and late hints, and for frames of any number of
\* hints: for every name that no frame of the stream both wrote and deleted.
\* For such a name it need not hold; the run watch_batch has the
\* counterexample.
THEOREM WatchBeliefHolds == Spec => []BeliefHolds
<1>1. WatchInv => BeliefHolds
  <2> SUFFICES ASSUME WatchInv PROVE BeliefHolds
    OBVIOUS
  <2>1. TypeOK /\ held \in Held
    BY DEF WatchInv, Typed, TypeOK
  <2>2. ASSUME stream \in {"start", "live"}, NEW n \in Names \ crossed
        PROVE  FoldLeft(Told, held, OnItsWay)[n] = known[n].key
    <3> DEFINE o == OnItsWay
               f == FoldLeft(Told, held, o)
    <3>0. pending \in Seq(Event) /\ frames \in Seq(Frame) /\ queued \in Seq(Ref)
        BY DEF WatchInv, Typed
    <3>1. o \in Seq(Event)
        BY <3>0, OnItsWayIs, RoadType
    <3>2. LastWord(held, o, n, known[n].key)
        BY <2>2 DEF WatchInv, Belief, Leads
    <3> HIDE DEF o
    <3>3. LastWord(held, o, n, f[n])
        BY <2>1, <3>1, FoldIsLastWord, Zenon
    <3> HIDE DEF f
    <3>4. f[n] = known[n].key
        BY <2>1, <3>1, <3>2, <3>3, OneLastWord, Zenon
    <3> QED
        BY <3>4 DEF f, o
  <2> QED
    BY <2>1, <2>2 DEF BeliefHolds
<1> QED
    BY <1>1, WatchInvariant, PTL

\* An event changes what the consumer holds: nothing is news twice, whatever
\* was told before a reconnect (KnownList, the node's reconcile, apply_hint),
\* for every name that no frame of the stream both wrote and deleted.
THEOREM WatchEventsAreNews == Spec => EventsAreNews
<1> DEFINE A == (/\ pending # <<>> /\ pending' = Tail(pending)
                 /\ Head(pending).typ # "synced" /\ Head(pending).name \notin crossed) => held' # held
<1>1. WatchInv /\ [Next]_vars => [A]_vars
  <2> SUFFICES ASSUME WatchInv, [Next]_vars, pending # <<>>, pending' = Tail(pending),
                      Head(pending).typ # "synced", Head(pending).name \notin crossed
               PROVE  held' # held
    OBVIOUS
  <2> DEFINE e == Head(pending)
             o == OnItsWay
  <2>1. pending \in Seq(Event) /\ frames \in Seq(Frame) /\ queued \in Seq(Ref) /\ held \in Held
    BY DEF WatchInv, Typed, TypeOK
  <2>2. pending' # pending
    BY <2>1
  <2>3. pc = "stream" /\ stream # "none"
    BY <2>1 DEF WatchInv, Session, Typed, TypeOK
  <2>4. Yield
    BY <2>2, <2>3 DEF Next, Generator, Cluster, StartRound, Open, OpenFails, NextFrame, ErrFrame,
        StreamStops, Wait, Commit, Hints, Refuse, Reconcile, ReconcilePage, ReconcileEnds, StreamDies,
        Cancel, clientVars, vars
  <2>5. e \in Event /\ e = pending[1] /\ e.typ # "synced" /\ e.name \notin crossed
    BY <2>1
  <2>6. o \in Seq(Event) /\ o # <<>> /\ o[1] = e
    BY <2>1, <2>5, OnItsWayIs, RoadType
  <2>7. held' = Told(held, e)
    BY <2>4, <2>5, EventFacts DEF Yield, Told
  <2> HIDE DEF e
  <2> DEFINE n == e.name
  <2>8. n \in Names \ crossed /\ About(e, n) /\ held[n] \in MaybeKey
    BY <2>1, <2>5, EventFacts DEF About, Held
  <2>9. NewsOf(held, o, n)
    BY <2>3, <2>8 DEF WatchInv, Belief, Leads
  <2> HIDE DEF o
  <2>10. 1 \in 1..Len(o) /\ SubSeq(o, 1, 1 - 1) = <<>>
    BY <2>6
  <2>11. LastWord(held, SubSeq(o, 1, 1 - 1), n, held[n])
    <3> HIDE DEF n
    <3>1. LastWord(held, <<>>, n, held[n])
        BY LastWordEmpty
    <3> QED
        BY <2>10, <3>1, Zenon
  <2>12. ~ Tells(e, n, held[n])
    BY <2>6, <2>8, <2>9, <2>10, <2>11 DEF NewsOf
  <2>13. Tells(e, n, Told(held, e)[n])
    BY <2>1, <2>5, <2>8, ToldFacts, Zenon
  <2> QED
    BY <2>7, <2>12, <2>13
<1> QED
    BY <1>1, WatchInvariant, PTL DEF Spec, EventsAreNews
=============================================================================
