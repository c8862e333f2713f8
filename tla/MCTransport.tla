---------------------------- MODULE MCTransport ----------------------------
(***************************************************************************)
(* Pool: three callers on a key with two conns, so that one can hold the   *)
(* dial lock, one wait behind it and one use or drop a conn.               *)
(* Stream: packs of up to three records of 0, 1 or 4 units, in chunks of   *)
(* three, through a buffer and a pipe of two.                              *)
(* Dial: a node with a direct address and a relay that moves once, and one *)
(* announcement that arrives late.                                         *)
(***************************************************************************)
EXTENDS Transport

MCPacks == UNION {[1..n -> {0, 1, 4}] : n \in 0..3}
=============================================================================
