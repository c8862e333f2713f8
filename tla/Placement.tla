----------------------------- MODULE Placement -----------------------------
(***************************************************************************)
(* Which nodes a key belongs to (crates/view/src/placement.rs and the      *)
(* Placement of view.rs).  Nodes are numbered in the order of their ids.   *)
(*                                                                         *)
(* L maps each node to the number that placement.rs computes from its salt *)
(* and the key's slot (slot, salt, fmix64, log2fix, l): nothing is known   *)
(* of it, and it may be 0, which ranks a node above all others.            *)
(***************************************************************************)
EXTENDS Integers, Sequences, FiniteSetsExt, SequencesExt

CONSTANT NoZone

\* The zone of a node without one is its id, which may be the zone of another.
ZoneOf(m) == IF m.zone = NoZone THEN m.id ELSE m.zone

\* rank_order: w/L in descending order without a division, then by id.
RanksAbove(a, b, L) ==
    LET pa == a.weight * L[b.id]
        pb == b.weight * L[a.id]
    IN pa > pb \/ (pa = pb /\ a.id < b.id)

\* The member at i comes before the one at j: the weighted ones by score, then
\* those of weight 0 by id.  The sorts are stable, that of the weight 0 ones for
\* up to twelve, which matters where an id repeats.
RanksFirst(members, L, i, j) ==
    LET a == members[i]
        b == members[j]
        above(x, y) == IF x.weight > 0 THEN RanksAbove(x, y, L) ELSE x.id < y.id
    IN \/ a.weight > 0 /\ b.weight = 0
       \/ /\ a.weight > 0 <=> b.weight > 0
          /\ above(a, b) \/ (~above(b, a) /\ i < j)

\* Set::rank: the positions, in this order.
Rank(members, L) ==
    CHOOSE s \in [DOMAIN members -> DOMAIN members] :
        \A i, j \in DOMAIN members : i < j => RanksFirst(members, L, s[i], s[j])

\* Mutant: a zone that has an owner may have another.
TakeAnyZone(acc, m, r) ==
    IF Len(acc) >= r \/ m.weight = 0 THEN acc ELSE Append(acc, m)

\* Set::owners, one step down the rank.
Take(acc, m, r) ==
    IF Len(acc) >= r \/ m.weight = 0 \/ \E i \in DOMAIN acc : ZoneOf(acc[i]) = ZoneOf(m)
    THEN acc ELSE Append(acc, m)

Owners(members, L, r) ==
    LET rank == Rank(members, L)
        taken[n \in 0..Len(members)] ==
            IF n = 0 THEN <<>> ELSE Take(taken[n - 1], members[rank[n]], r)
        out == taken[Len(members)]
    IN [i \in DOMAIN out |-> out[i].id]

RankIds(members, L) ==
    LET rank == Rank(members, L) IN [i \in DOMAIN rank |-> members[rank[i]].id]

-----------------------------------------------------------------------------
(***************************************************************************)
(* A view has nodes, a number of replicas and, in a transition, both again *)
(* under `pending`.                                                        *)
(***************************************************************************)
InTransition(view) == view.pending # <<>>
CurOwners(view, L) == Owners(view.nodes, L, view.replicas)
PendingOwners(view, L) == Owners(view.pending.nodes, L, view.pending.replicas)

\* The entries of more that out has not, behind it.
Followed(out, more) ==
    LET with[n \in 0..Len(more)] ==
            IF n = 0 THEN out
            ELSE IF more[n] \in ToSet(out) THEN with[n - 1] ELSE Append(with[n - 1], more[n])
    IN with[Len(more)]

WriteSet(view, L) ==
    IF InTransition(view) THEN Followed(CurOwners(view, L), PendingOwners(view, L))
    ELSE CurOwners(view, L)

ReadOrder(view, L) ==
    IF InTransition(view)
    THEN Followed(RankIds(view.nodes, L), RankIds(view.pending.nodes, L))
    ELSE RankIds(view.nodes, L)

IsOwner(view, L, id) == id \in ToSet(CurOwners(view, L))
IsPendingOwner(view, L, id) == InTransition(view) /\ id \in ToSet(PendingOwners(view, L))
InWriteSet(view, L, id) == IsOwner(view, L, id) \/ IsPendingOwner(view, L, id)

\* validate_change, not forced.
ValidChange(cur, target, replicas) ==
    LET stays(n) == \E j \in DOMAIN target : target[j].id = n.id /\ target[j].weight > 0
        dropped == {i \in DOMAIN cur : cur[i].weight > 0 /\ ~stays(cur[i])}
    IN ~(Cardinality(dropped) >= replicas /\ replicas > 0)

-----------------------------------------------------------------------------
WeightedZones(members) ==
    {ZoneOf(members[i]) : i \in {i \in DOMAIN members : members[i].weight > 0}}
Without(members, i) == RemoveAt(members, i)
Reweighed(members, i, w) == [members EXCEPT ![i].weight = w]

(***************************************************************************)
(* Whatever the numbers of the nodes: a key has as many owners as there    *)
(* are zones to take them from, one per zone.  A node that leaves, or is   *)
(* drained, costs the key no other owner, and one that gains weight        *)
(* displaces at most one and never itself: clients whose views are one     *)
(* change apart agree on all owners but one.  The first owner is read      *)
(* first.  A change that validate_change lets through leaves a key that    *)
(* had all its replicas an owner to copy it from.                          *)
(***************************************************************************)
PlacedRight(view, L) ==
    LET members == view.nodes
        r == view.replicas
        ids == ToSet(CurOwners(view, L))
        zones == {ZoneOf(members[i]) : i \in {i \in DOMAIN members : members[i].id \in ids}}
        order == ReadOrder(view, L)
    IN /\ Cardinality(ids) = Min({r, Cardinality(WeightedZones(members))})
       /\ Cardinality(zones) = Cardinality(ids) /\ zones \subseteq WeightedZones(members)
       /\ \A i \in DOMAIN members :
            LET id == members[i].id
                left == ToSet(Owners(Without(members, i), L, r))
                drained == ToSet(Owners(Reweighed(members, i, 0), L, r))
                grown == ToSet(Owners(Reweighed(members, i, members[i].weight + 1), L, r))
            IN /\ ids \ {id} \subseteq left /\ left = drained
               /\ id \in ids => grown = ids
               /\ Cardinality(ids \ grown) <= 1
       /\ ids # {} => Head(order) = CurOwners(view, L)[1]
       /\ IsInjective(order) /\ IsInjective(WriteSet(view, L))
       /\ \A i \in DOMAIN order : (order[i] \in ToSet(WriteSet(view, L))) = InWriteSet(view, L, order[i])
       /\ /\ InTransition(view) /\ ids # {} /\ Cardinality(ids) = r
          /\ ValidChange(members, view.pending.nodes, r)
          => \E i \in DOMAIN view.pending.nodes :
                view.pending.nodes[i].id \in ids /\ view.pending.nodes[i].weight > 0
=============================================================================
