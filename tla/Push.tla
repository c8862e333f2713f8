-------------------------------- MODULE Push --------------------------------
(***************************************************************************)
(* Uploading a tree (crates/client/src/tree.rs push and direct_fill,       *)
(* objects.rs missing, put and placed): three rounds that ask the owners   *)
(* what they lack and send it, the acknowledgement rule per object, a      *)
(* direct fill of what stays short, then the reference write, renegotiated *)
(* when the node finds the tree incomplete.                                *)
(*                                                                         *)
(* Objects of one batch are asked and sent together; here each object is   *)
(* asked on its own, which leaves more room for things to go wrong, and    *)
(* sent in one batch per node.  The nodes answer as the test cluster of    *)
(* crates/testkit/src/fake.rs does.  Garbage collection is not in this     *)
(* repository: it takes objects that are not pinned, and pins last through *)
(* the rounds, which pin again when they take long, but not beyond them.   *)
(***************************************************************************)
EXTENDS Naturals, Sequences, FiniteSets

CONSTANTS
    Keys,         \* the objects of the tree
    Nodes,
    Flaky,        \* the node that may come and go
    OwnersOf,     \* of each view, in order: the owners of each key
    PendingOf,    \* of each view: the pending owners of each key, if any
    MinReplicas,
    Rounds,       \* negotiate/put rounds: 3
    RefAttempts,  \* reference writes: 3
    PutAttempts,  \* put_batch: 4
    MaxFaults     \* bound: times Flaky goes down, objects are reaped, a node
                  \* answers with an error or the view changes, together

ASSUME PushAssumption ==
    /\ IsFiniteSet(Nodes) /\ Flaky \in Nodes
    /\ OwnersOf \in Seq([Keys -> SUBSET Nodes]) /\ PendingOf \in Seq([Keys -> SUBSET Nodes])
    /\ Len(OwnersOf) = Len(PendingOf) /\ Len(OwnersOf) > 0
    /\ {MinReplicas, Rounds, RefAttempts, PutAttempts} \subseteq Nat \ {0}

VARIABLES
    held,      \* the objects each node stores
    pins,      \* the objects each node keeps from collection: pinned, or new
    down,      \* Flaky is down
    cv, view,  \* the view the nodes have, the view the client has
    pc, round, attempt,
    nego,      \* the negotiation of each object
    jobs,      \* the put under way: per node, the batch and its attempts
    got,       \* PutResult.holders
    rejected,  \* PutResult.rejected
    holders,   \* who is known to hold each object
    ever,      \* history: who has held each object since the push began
    raced,     \* history: "held everywhere" was read under another view
    whole,     \* history: every object was at all its owners or nowhere
    flaps, reaps, refusals

nodeVars == <<held, pins, down, cv>>
putVars == <<jobs, got, rejected>>
faultVars == <<flaps, reaps, refusals>>
vars == <<nodeVars, view, pc, round, attempt, nego, putVars, holders, ever, raced, whole,
          faultVars>>

OwnersIn(v, k) == OwnersOf[v][k]
WriteSet(v, k) == OwnersOf[v][k] \cup PendingOf[v][k]

Enough(owners, hs) ==
    \/ Cardinality(owners \cap hs) >= MinReplicas
    \/ owners \subseteq hs

\* placed: enough of the owners and, in a transition, of the pending ones.
Placed(v, k, hs) == Enough(OwnersOf[v][k], hs) /\ Enough(PendingOf[v][k], hs)

Room == flaps + reaps + refusals + cv - 1 < MaxFaults
Up(n) == ~(n = Flaky /\ down)
Storing(k) == {n \in Nodes : k \in held[n]}

NoJob == [keys |-> {}, tries |-> 0]
NoJobs == [n \in Nodes |-> NoJob]
Nobody == [k \in Keys |-> {}]
Unasked == [k \in Keys |-> [st |-> "ask", tried |-> {}]]

Init ==
    /\ held \in [Nodes -> SUBSET Keys]
    /\ \A k \in Keys : Storing(k) \subseteq WriteSet(1, k)
    /\ pins = [n \in Nodes |-> {}]
    /\ down \in BOOLEAN
    /\ cv = 1 /\ view = 1
    /\ pc = "negotiate" /\ round = 0 /\ attempt = 0
    /\ nego = Unasked
    /\ jobs = NoJobs /\ got = Nobody /\ rejected = {}
    /\ holders = Nobody
    /\ ever = [k \in Keys |-> Storing(k)]
    /\ raced = FALSE
    /\ whole = \A k \in Keys : Storing(k) \in {{}, WriteSet(1, k)}
    /\ flaps = 0 /\ reaps = 0 /\ refusals = 0

----------------------------------------------------------------------------
(* The world around the push.                                              *)

GoDown ==
    /\ ~down /\ Room
    /\ down' = TRUE
    /\ flaps' = flaps + 1
    /\ UNCHANGED <<held, pins, cv, view, pc, round, attempt, nego, putVars, holders, ever, raced,
                   reaps, refusals>>

ComeUp ==
    /\ down
    /\ down' = FALSE
    /\ UNCHANGED <<held, pins, cv, view, pc, round, attempt, nego, putVars, holders, ever, raced,
                   faultVars>>

\* The garbage collector takes an object from some of the nodes.
Rounded == pc \in {"ref", "renegotiate", "reput", "refill"}

Reap(k, where) ==
    /\ Room
    /\ where \subseteq Storing(k) /\ where # {}
    /\ Rounded \/ \A n \in where : k \notin pins[n]
    /\ held' = [n \in Nodes |-> IF n \in where THEN held[n] \ {k} ELSE held[n]]
    /\ pins' = [n \in Nodes |-> IF n \in where THEN pins[n] \ {k} ELSE pins[n]]
    /\ reaps' = reaps + 1
    /\ UNCHANGED <<down, cv, view, pc, round, attempt, nego, putVars, holders, ever, raced,
                   flaps, refusals>>

NextView ==
    /\ cv + 1 \in DOMAIN OwnersOf /\ Room
    /\ cv' = cv + 1
    /\ UNCHANGED <<held, pins, down, view, pc, round, attempt, nego, putVars, holders, ever, raced,
                   faultVars>>

\* Any answer, or a refresh, may bring the view (see Cluster).
Adopt ==
    /\ view < cv
    /\ view' = cv
    /\ UNCHANGED <<nodeVars, pc, round, attempt, nego, putVars, holders, ever, raced, faultVars>>

----------------------------------------------------------------------------
(* missing: each object is asked at one owner after the other.             *)

Asking(k) == pc \in {"negotiate", "renegotiate"} /\ nego[k].st = "ask"

\* handle_missing and negotiate_holders at node p: who is seen to hold k, all
\* of them pinning it, and the answer.
Seen(p, k) ==
    IF k \notin held[p] THEN {}
    ELSE {p} \cup {o \in WriteSet(cv, k) : Up(o) /\ k \in held[o]}

Answer(p, k) ==
    CASE Seen(p, k) = {} -> [typ |-> "lacks"]
      [] Cardinality(Seen(p, k)) \in 1..(Cardinality(WriteSet(cv, k)) - 1) ->
            [typ |-> "short", by |-> Seen(p, k)]
      [] OTHER -> [typ |-> "everywhere", under |-> cv]

Pinned(k, where) == [n \in Nodes |-> IF n \in where THEN pins[n] \cup {k} ELSE pins[n]]

\* primary_except and the request: any owner not tried yet may come first.
Ask(k, p) ==
    /\ Asking(k)
    /\ p \in OwnersIn(view, k) \ nego[k].tried
    /\ Up(p)
    /\ nego' = [nego EXCEPT ![k] = [st |-> "asked", at |-> p, tried |-> @.tried,
                                    under |-> view, ans |-> Answer(p, k)]]
    /\ pins' = Pinned(k, Seen(p, k))
    /\ UNCHANGED <<held, down, cv, view, pc, round, attempt, putVars, holders, ever, raced, faultVars>>

\* Mutant: an unreachable primary fails its keys.
AskFailsOutright(k, p) ==
    /\ Asking(k)
    /\ p \in OwnersIn(view, k) \ nego[k].tried
    /\ ~Up(p)
    /\ nego' = [nego EXCEPT ![k] = [st |-> "failed"]]
    /\ UNCHANGED <<nodeVars, view, pc, round, attempt, putVars, holders, ever, raced, faultVars>>

AskFails(k, p) ==
    /\ Asking(k)
    /\ p \in OwnersIn(view, k) \ nego[k].tried
    /\ ~Up(p)
    /\ nego' = [nego EXCEPT ![k] = [st |-> "ask", tried |-> @.tried \cup {p}]]
    /\ UNCHANGED <<nodeVars, view, pc, round, attempt, putVars, holders, ever, raced, faultVars>>

NoOwnerLeft(k) ==
    /\ Asking(k)
    /\ OwnersIn(view, k) \subseteq nego[k].tried
    /\ nego' = [nego EXCEPT ![k] = [st |-> "failed"]]
    /\ UNCHANGED <<nodeVars, view, pc, round, attempt, putVars, holders, ever, raced, faultVars>>

\* A remote error fails the key outright.
AskRefused(k) ==
    /\ Asking(k) /\ Room
    /\ refusals' = refusals + 1
    /\ nego' = [nego EXCEPT ![k] = [st |-> "failed"]]
    /\ UNCHANGED <<nodeVars, view, pc, round, attempt, putVars, holders, ever, raced, flaps, reaps>>

\* The answer is lost with the node; the key goes to its next owner.
AnswerLost(k) ==
    /\ nego[k].st = "asked" /\ ~Up(nego[k].at)
    /\ nego' = [nego EXCEPT ![k] = [st |-> "ask", tried |-> @.tried \cup {@.at}]]
    /\ UNCHANGED <<nodeVars, view, pc, round, attempt, putVars, holders, ever, raced, faultVars>>

\* Mutant: a short answer is taken for held everywhere.
AnsweredAll(k) ==
    /\ nego[k].st = "asked"
    /\ nego' = [nego EXCEPT ![k] =
           IF nego[k].ans.typ = "lacks" THEN [st |-> "lacking", at |-> @.at]
           ELSE [st |-> "held", by |-> WriteSet(view, k)]]
    /\ UNCHANGED <<nodeVars, view, pc, round, attempt, putVars, holders, ever, raced, faultVars>>

Answered(k) ==
    /\ nego[k].st = "asked"
    /\ LET a == nego[k].ans IN
        /\ nego' = [nego EXCEPT ![k] =
               CASE a.typ = "lacks" -> [st |-> "lacking", at |-> @.at]
                 [] a.typ = "short" -> [st |-> "held", by |-> a.by]
                 [] a.typ = "everywhere" -> [st |-> "held", by |-> WriteSet(view, k)]]
        /\ raced' = (raced \/ (a.typ = "everywhere" /\ {nego[k].under, a.under} # {view}))
    /\ UNCHANGED <<nodeVars, view, pc, round, attempt, putVars, holders, ever, faultVars>>

Asked == \A k \in Keys : nego[k].st \in {"held", "lacking", "failed"}
Lacking == {k \in Keys : nego[k].st = "lacking"}
ToPrimaries == [n \in Nodes |-> [keys |-> {k \in Lacking : nego[k].at = n}, tries |-> 0]]

StartPut(batches) ==
    /\ jobs' = batches
    /\ got' = Nobody
    /\ rejected' = {}

\* A round's negotiation ends: what the primaries say replaces what was known.
Negotiated ==
    /\ pc = "negotiate" /\ Asked
    /\ holders' = [k \in Keys |-> IF nego[k].st = "held" THEN nego[k].by ELSE holders[k]]
    /\ pc' = CASE \E k \in Keys : nego[k].st = "failed" -> "failed"
               [] Lacking = {} -> "check"
               [] OTHER -> "put"
    /\ StartPut(ToPrimaries)
    /\ nego' = Unasked
    /\ UNCHANGED <<nodeVars, view, round, attempt, ever, raced, faultVars>>

\* After an incomplete answer: failures are not looked at.
Renegotiated ==
    /\ pc = "renegotiate" /\ Asked
    /\ holders' = [k \in Keys |-> IF nego[k].st = "held" THEN nego[k].by ELSE {}]
    /\ pc' = "reput"
    /\ StartPut(ToPrimaries)
    /\ nego' = Unasked
    /\ UNCHANGED <<nodeVars, view, round, attempt, ever, raced, faultVars>>

----------------------------------------------------------------------------
(* put: one batch per node, all in flight at once.                         *)

Sending(n) == jobs[n].keys # {}

\* handle_put at node n: what it keeps, whom it forwards that to, the owners
\* without space excepted, and what its reply says of each key.
Accepted(n) == {k \in jobs[n].keys : n \in WriteSet(cv, k)}
Forwarded(n, k, full) == {n} \cup {o \in WriteSet(cv, k) \ full : Up(o)}

Stored(n, full) ==
    /\ held' = [o \in Nodes |-> held[o] \cup {k \in Accepted(n) : o \in Forwarded(n, k, full)}]
    /\ pins' = [o \in Nodes |-> pins[o] \cup {k \in Accepted(n) : o \in Forwarded(n, k, full)}]
    /\ ever' = [k \in Keys |-> ever[k] \cup {o \in Nodes : k \in held'[o]}]

\* It stores record by record and forwards after the last one: what it has
\* stored when it is interrupted is nowhere else.
StoredPart(n, some) ==
    /\ held' = [held EXCEPT ![n] = @ \cup some]
    /\ pins' = [pins EXCEPT ![n] = @ \cup some]
    /\ ever' = [k \in Keys |-> ever[k] \cup {o \in Nodes : k \in held'[o]}]

PutReply(n, full) ==
    /\ Sending(n) /\ Up(n) /\ view = cv
    /\ Stored(n, full)
    /\ got' = [k \in Keys |-> IF k \in Accepted(n) THEN Forwarded(n, k, full) ELSE got[k]]
    /\ rejected' = rejected \cup (jobs[n].keys \ Accepted(n))
    /\ jobs' = [jobs EXCEPT ![n] = NoJob]
    /\ UNCHANGED <<down, cv, view, pc, round, attempt, nego, holders, raced>>

PutStores(n) == PutReply(n, {}) /\ UNCHANGED faultVars

\* An owner refuses the forward for lack of space.
PutNoSpace(n, o) ==
    /\ Room
    /\ refusals' = refusals + 1
    /\ PutReply(n, {o})
    /\ UNCHANGED <<flaps, reaps>>

\* The node dies, with some of the records stored, or after all of them are
\* stored and forwarded: the reply is lost.
PutLost(n) ==
    /\ Sending(n) /\ Up(n) /\ view = cv
    /\ n = Flaky /\ Room
    /\ flaps' = flaps + 1
    /\ down' = TRUE
    /\ Stored(n, {}) \/ \E some \in SUBSET Accepted(n) : StoredPart(n, some)
    /\ jobs' = [jobs EXCEPT ![n] = NoJob]
    /\ UNCHANGED <<cv, view, pc, round, attempt, nego, got, rejected, holders, raced, reaps, refusals>>

PutUnreachable(n) ==
    /\ Sending(n) /\ ~Up(n)
    /\ jobs' = [jobs EXCEPT ![n] = NoJob]
    /\ UNCHANGED <<nodeVars, view, pc, round, attempt, nego, got, rejected, holders, ever, raced,
                   faultVars>>

\* Stale view and busy are tried again at the same node, PutAttempts in all.
AfterAttempt(n) ==
    jobs' = IF jobs[n].tries + 1 < PutAttempts
            THEN [jobs EXCEPT ![n].tries = @ + 1]
            ELSE [jobs EXCEPT ![n] = NoJob]

PutStale(n) ==
    /\ Sending(n) /\ Up(n) /\ view < cv
    /\ view' = cv
    /\ AfterAttempt(n)
    /\ UNCHANGED <<nodeVars, pc, round, attempt, nego, got, rejected, holders, ever, raced, faultVars>>

PutBusy(n) ==
    /\ Sending(n) /\ Up(n) /\ Room
    /\ refusals' = refusals + 1
    /\ AfterAttempt(n)
    /\ UNCHANGED <<nodeVars, view, pc, round, attempt, nego, got, rejected, holders, ever, raced,
                   flaps, reaps>>

\* Any other error ends the node's batches: a refusal, or a pack that breaks
\* off after some of its records.
PutRefused(n) ==
    /\ Sending(n) /\ Up(n) /\ Room
    /\ refusals' = refusals + 1
    /\ jobs' = [jobs EXCEPT ![n] = NoJob]
    /\ \E some \in SUBSET Accepted(n) : (some # {} => view = cv) /\ StoredPart(n, some)
    /\ UNCHANGED <<down, cv, view, pc, round, attempt, nego, got, rejected, holders, raced, flaps, reaps>>

Sent == \A n \in Nodes : ~Sending(n)

PutDone ==
    /\ pc = "put" /\ Sent
    /\ holders' = [k \in Keys |-> IF got[k] = {} THEN holders[k] ELSE got[k]]
    /\ pc' = IF rejected # {} THEN "failed" ELSE "check"
    /\ UNCHANGED <<nodeVars, view, round, attempt, nego, putVars, ever, raced, faultVars>>

----------------------------------------------------------------------------
(* The acknowledgement rule and the direct fill.                           *)

\* Mutant: one holder is enough.
ShortNowhere == {k \in Keys : holders[k] = {}}

Short == {k \in Keys : ~Placed(view, k, holders[k])}

\* direct_fill: to every owner not known to hold it.
ToOwners(short) ==
    [n \in Nodes |->
        [keys |-> {k \in short : n \in WriteSet(view, k) \ holders[k]}, tries |-> 0]]

Check ==
    /\ pc = "check"
    /\ pc' = CASE Short = {} -> "ref"
               [] Short # {} /\ round = Rounds - 1 -> "failed"
               [] Short # {} /\ round = 1 /\ round < Rounds - 1 -> "fill"
               [] OTHER -> "negotiate"
    /\ round' = IF pc' = "negotiate" THEN round + 1 ELSE round
    /\ StartPut(IF pc' = "fill" THEN ToOwners(Short) ELSE NoJobs)
    /\ UNCHANGED <<nodeVars, view, attempt, nego, holders, ever, raced, faultVars>>

\* merge_ids: what the fill's replies say is added to what was known.
Merged == [k \in Keys |-> holders[k] \cup got[k]]

FillDone ==
    /\ pc = "fill" /\ Sent
    /\ holders' = Merged
    /\ round' = round + 1
    /\ pc' = "negotiate"
    /\ UNCHANGED <<nodeVars, view, attempt, nego, putVars, ever, raced, faultVars>>

----------------------------------------------------------------------------
(* The reference write.                                                    *)

\* walk_complete: every key at enough of its owners, those that answer.  (What
\* it pins is of no consequence: no round follows.)
Complete == \A k \in Keys : Placed(cv, k, {n \in Storing(k) : Up(n)})

RefPut ==
    /\ pc = "ref"
    /\ view' = cv
    /\ pc' = CASE Complete -> "done"
               [] ~Complete /\ attempt = RefAttempts - 1 -> "failed"
               [] OTHER -> "renegotiate"
    /\ attempt' = IF pc' = "renegotiate" THEN attempt + 1 ELSE attempt
    /\ UNCHANGED <<nodeVars, round, nego, putVars, holders, ever, raced, faultVars>>

\* The reference has moved, or the node refuses the write.
RefRefused ==
    /\ pc = "ref" /\ Room
    /\ refusals' = refusals + 1
    /\ pc' = "failed"
    /\ UNCHANGED <<nodeVars, view, round, attempt, nego, putVars, holders, ever, raced, flaps, reaps>>

\* Mutant: what a renegotiation finds short is not filled.
ReputDoneNoFill ==
    /\ pc = "reput" /\ Sent
    /\ pc' = "ref"
    /\ StartPut(NoJobs)
    /\ UNCHANGED <<nodeVars, view, round, attempt, nego, holders, ever, raced, faultVars>>

\* The put of a renegotiation is over, its result ignored: what was lacking
\* is short, whatever was stored.
ReputDone ==
    /\ pc = "reput" /\ Sent
    /\ pc' = IF Short = {} THEN "ref" ELSE "refill"
    /\ StartPut(ToOwners(Short))
    /\ UNCHANGED <<nodeVars, view, round, attempt, nego, holders, ever, raced, faultVars>>

RefillDone ==
    /\ pc = "refill" /\ Sent
    /\ holders' = Merged
    /\ pc' = "ref"
    /\ UNCHANGED <<nodeVars, view, round, attempt, nego, putVars, ever, raced, faultVars>>

----------------------------------------------------------------------------

World == GoDown \/ ComeUp \/ NextView \/ Adopt \/ \E k \in Keys, where \in SUBSET Nodes : Reap(k, where)

Missing ==
    \E k \in Keys : \/ \E p \in Nodes : Ask(k, p) \/ AskFails(k, p)
                    \/ NoOwnerLeft(k) \/ AskRefused(k) \/ AnswerLost(k) \/ Answered(k)

Put ==
    \E n \in Nodes : \/ PutStores(n) \/ (\E o \in Nodes \ {n} : PutNoSpace(n, o))
                     \/ PutLost(n) \/ PutUnreachable(n)
                     \/ PutStale(n) \/ PutBusy(n) \/ PutRefused(n)

Client ==
    \/ Missing \/ Negotiated \/ Renegotiated \/ Put \/ PutDone
    \/ Check \/ FillDone \/ RefPut \/ RefRefused \/ ReputDone \/ RefillDone

Next ==
    /\ whole' = whole
    /\ (pc \notin {"done", "failed"} /\ World) \/ Client

Spec == Init /\ [][Next]_vars

----------------------------------------------------------------------------
(* Properties.                                                             *)

Nego ==
    [st : {"ask"}, tried : SUBSET Nodes] \cup [st : {"failed"}]
    \cup [st : {"asked"}, at : Nodes, tried : SUBSET Nodes, under : 1..cv,
          ans : [typ : {"lacks"}] \cup [typ : {"short"}, by : SUBSET Nodes]
                \cup [typ : {"everywhere"}, under : 1..cv]]
    \cup [st : {"lacking"}, at : Nodes] \cup [st : {"held"}, by : SUBSET Nodes]

TypeOK ==
    /\ held \in [Nodes -> SUBSET Keys] /\ pins \in [Nodes -> SUBSET Keys] /\ down \in BOOLEAN
    /\ cv \in DOMAIN OwnersOf /\ view \in 1..cv
    /\ pc \in {"negotiate", "put", "check", "fill", "ref", "renegotiate", "reput", "refill",
               "done", "failed"}
    /\ round \in 0..(Rounds - 1) /\ attempt \in 0..(RefAttempts - 1)
    /\ nego \in [Keys -> Nego]
    /\ jobs \in [Nodes -> [keys : SUBSET Keys, tries : 0..(PutAttempts - 1)]]
    /\ got \in [Keys -> SUBSET Nodes] /\ rejected \subseteq Keys
    /\ holders \in [Keys -> SUBSET Nodes] /\ ever \in [Keys -> SUBSET Nodes]

\* Nobody is credited who never had it: a node counted as holder of an object
\* has held it since the push began, whatever was lost, reaped or forwarded
\* in between.  (An answer "held everywhere" asked, given and read under views
\* that differ names nodes nobody looked at: raced.)
HoldersHaveHeld ==
    /\ TypeOK
    /\ raced \/ \A k \in Keys : holders[k] \subseteq ever[k]

\* The reference is first written only after enough owners of every object,
\* under the client's view, have had it during this push.  Here too a push
\* with an answer "held everywhere" that raced a view change is excepted.
AckedBeforeRef ==
    [][(pc = "check" /\ pc' = "ref")
        => raced \/ \A k \in Keys : Placed(view, k, ever[k])]_vars

\* One owner that comes and goes, dies half-way through a put and loses
\* replies, never fails a push: two others remain, and min_replicas is two.
\* It takes an object that was at all its owners or nowhere when the push
\* began: one stored at some of them may be short for ever after, since only
\* what its primary lacks is sent again in a round.
OneNodeMayFlap == (whole /\ cv = 1 /\ reaps = 0 /\ refusals = 0) => pc # "failed"

\* Objects reaped between the rounds and the completeness gate are sent again:
\* losses, as many as there are renegotiations, never fail a push, whether or
\* not Flaky is there from the start.
ReapedIsResent == (cv = 1 /\ flaps = 0 /\ refusals = 0 /\ reaps < RefAttempts) => pc # "failed"
=============================================================================
