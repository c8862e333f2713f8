------------------------------- MODULE MCGet -------------------------------
(***************************************************************************)
(* A fetch, or the contexts that end one.                                  *)
(*                                                                         *)
(* Fetcher: as MCFetcher, with two views.                                  *)
(* Contexts: a root, its child and its grandchild, timeouts of no or one   *)
(* tick, two cancels.                                                      *)
(***************************************************************************)
EXTENDS MCFetcher, Get

CONSTANTS rootCtx, middleCtx, lowestCtx

MCPath == (rootCtx :> <<rootCtx>>) @@ (middleCtx :> <<rootCtx, middleCtx>>)
          @@ (lowestCtx :> <<rootCtx, middleCtx, lowestCtx>>)
=============================================================================
