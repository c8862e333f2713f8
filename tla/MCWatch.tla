------------------------------ MODULE MCWatch ------------------------------
(***************************************************************************)
(* A behaviour uses one name or two.                                       *)
(*                                                                         *)
(* One name, whose row both sides keep on its own: two keys, two faults, a *)
(* cancel, frames queued behind each other, and listings of one page.      *)
(* Two names: their listing may take two pages, with commits between       *)
(* them; one key, one fault, no cancel, and the node sends when what it    *)
(* sent before has been read.                                              *)
(*                                                                         *)
(* Keys of different names are never compared, so that a name's first key  *)
(* may be called k1: the catalog's or, if it has none, the client's.       *)
(***************************************************************************)
EXTENDS Watch

CONSTANTS a, b, k1

VARIABLE used   \* the names in use

OneKey == {k1, NoKey}

MCInit ==
    /\ used \in {{a}, {a, b}}
    /\ Init
    /\ \A n \in Names : catalog[n].key = k1 \/ {catalog[n].key, state[n]} \subseteq OneKey
    /\ \A n \in Names \ used : {catalog[n].key, state[n]} = {NoKey}
    /\ used = {a, b} => \A n \in Names : state[n] \in OneKey

OneName ==
    /\ used = {a}
    /\ catalog'[b] = catalog[b]
    /\ listed' \in {{}, Names}

TwoNames ==
    /\ used = {a, b}
    /\ \A n \in Names : catalog'[n].key \in OneKey
    /\ faults' <= 1 /\ ~cancelled'
    /\ Len(frames') > Len(frames) => frames = NoFrames

MCNext == Next /\ (OneName \/ TwoNames) /\ UNCHANGED used

MCSpec == MCInit /\ [][MCNext]_<<used, vars>> /\ Fairness
=============================================================================
