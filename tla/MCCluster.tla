----------------------------- MODULE MCCluster -----------------------------
(***************************************************************************)
(* One user and one spawned refresh on two nodes: the smallest instance in *)
(* which two tasks hold replies of different age.  The second view is a    *)
(* changed one or that of a restored cluster (higher incarnation, lower    *)
(* epoch and version); a stale-view retry that carries it must succeed.    *)
(***************************************************************************)
EXTENDS Cluster
=============================================================================
