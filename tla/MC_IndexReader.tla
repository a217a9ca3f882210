--------------------------- MODULE MC_IndexReader ---------------------------
EXTENDS IndexReader, TLC

CONSTANTS r1, r2, r3

MCRegs == {r1, r2, r3}

(* Height 1 writes every register, height 2 only r2.                       *)
MCUpdatedAt == (1 :> {r1, r2, r3}) @@ (2 :> {r2})

(* Only height 2 emitted events.                                           *)
MCEventHeights == {2}

(* The fast path and a fan-out over more registers than the limit.         *)
MCQueries == {<<r2>>, <<r1, r2, r3>>}

MCQueryHeights == 0..3
=============================================================================
