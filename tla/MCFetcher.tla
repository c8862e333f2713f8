----------------------------- MODULE MCFetcher -----------------------------
(***************************************************************************)
(* Two keys, two owners, one worker and channels of one slot.  An owner    *)
(* has no path or a far one, or a backoff runs.                            *)
(***************************************************************************)
EXTENDS Fetcher, TLC

CONSTANTS a, b, k1, k2

\* One view: both keys are read from a first, then b.
MCOneView == << (k1 :> <<a, b>>) @@ (k2 :> <<a, b>>) >>

\* Two views: in the second b owns k1 and a only did, and k2 has no owner.
MCTwoViews == << (k1 :> <<a, b>>) @@ (k2 :> <<a>>), (k1 :> <<b, a>>) @@ (k2 :> <<>>) >>

MCReplicas == [v \in Views |-> IF v = 1 THEN 2 ELSE 1]

\* k1 is at b, k2 nowhere; both are at b.
MCHolds == (k1 :> {b}) @@ (k2 :> {})
MCHoldsBoth == (k1 :> {b}) @@ (k2 :> {b})
=============================================================================
