------------------------------ MODULE Placing ------------------------------
(***************************************************************************)
(* The push of a tree, and next to it the placement of a key, which tells  *)
(* where its objects go.  Push takes the owners as they are, so the two    *)
(* share no state: a behaviour is a push, or one view and key.             *)
(***************************************************************************)
EXTENDS Push

CONSTANTS
    NoZone, Zones,  \* no zone, and the zones nodes may be given
    Samples         \* views, each with the numbers of its nodes for a key

\* Nodes of a view, no two of the same id.
NodeList(nodes) ==
    /\ nodes \in Seq([id : Nat, weight : Nat, zone : Zones])
    /\ \A i, j \in DOMAIN nodes : nodes[i].id = nodes[j].id => i = j

ASSUME SamplesAssumption ==
    \A s \in Samples :
        /\ NodeList(s.view.nodes) /\ s.view.replicas \in Nat
        /\ s.view.pending # <<>> => NodeList(s.view.pending.nodes) /\ s.view.pending.replicas \in Nat
        /\ \A id \in DOMAIN s.numbers : s.numbers[id] \in Nat

VARIABLES
    part,       \* which of the two
    sample

Place == INSTANCE Placement

\* Every id has a number.
Numbers(s) == [id \in Nat |-> IF id \in DOMAIN s.numbers THEN s.numbers[id] ELSE 0]

\* Nothing to push: every object is everywhere.
AtRest == Init /\ ~down /\ whole /\ \A k \in Keys : Storing(k) = WriteSet(1, k)

AnyInit ==
    \/ part = "push" /\ Init /\ sample = <<>>
    \/ part = "place" /\ AtRest /\ sample \in Samples

AnyNext ==
    \/ part = "push" /\ Next /\ UNCHANGED <<part, sample>>
    \/ part = "place" /\ UNCHANGED <<part, vars, sample>>

AnySpec == AnyInit /\ [][AnyNext]_<<part, vars, sample>>

\* Owners, write set and read order of a key are as Place!PlacedRight says.
PlacedRight == part = "place" => Place!PlacedRight(sample.view, Numbers(sample))
=============================================================================
