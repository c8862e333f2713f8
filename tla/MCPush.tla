------------------------------- MODULE MCPush -------------------------------
(***************************************************************************)
(* The push of a tree, and next to it the placement of a key that decides  *)
(* where its objects go: a behaviour is a push, or one view and key.       *)
(*                                                                         *)
(* Push: two objects, three owners and a fourth node that a transition     *)
(* brings in and that has taken the place of the first when it ends.       *)
(* Placement: three nodes of weight 0 to 2, in a shared zone, which may    *)
(* have the name of the first, or without one, with numbers from 0 to 2    *)
(* and one or two replicas; no transition, or one that reverses the        *)
(* weights and goes from one replica to two, or takes one of two replicas' *)
(* nodes away.                                                             *)
(***************************************************************************)
EXTENDS Placing, TLC

CONSTANTS n1, n2, n3, n4

Always(S) == [k \in Keys |-> S]
MCOwners == <<Always({n1, n2, n3}), Always({n1, n2, n3}), Always({n2, n3, n4})>>
MCPending == <<Always({}), Always({n2, n3, n4}), Always({})>>
Symmetry == Permutations(Keys) \cup Permutations({n2, n3})

Ids == 1..3
NodesOf(weights, zones) == [i \in Ids |-> [id |-> i, weight |-> weights[i], zone |-> zones[i]]]
Turned(nodes) == [i \in Ids |-> [nodes[i] EXCEPT !.weight = nodes[4 - i].weight]]
Transitions(nodes, r) ==
    {<<>>, [nodes |-> IF r = 1 THEN Turned(nodes) ELSE Tail(nodes), replicas |-> 2]}
MCZones == {0, 1, 4}
ZonesOf == [Ids -> {0, 4}] \cup {<<0, 1, 0>>, <<0, 1, 1>>}

ViewsOf(r) ==
    UNION {{[nodes |-> nodes, replicas |-> r, pending |-> p] : p \in Transitions(nodes, r)} :
           nodes \in {NodesOf(weights, zones) : weights \in [Ids -> 0..2], zones \in ZonesOf}}
MCSamples == [view : ViewsOf(1) \cup ViewsOf(2), numbers : [Ids -> 0..2]]
=============================================================================
