---------------------------- MODULE MCChunkLocks ----------------------------
(* A note, its child, and a child of both. *)
EXTENDS ChunkLocks

CONSTANTS top, mid, low

Triangle == low :> {mid, top} @@ mid :> {top} @@ top :> {}
=============================================================================
