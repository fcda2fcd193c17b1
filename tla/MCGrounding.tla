----------------------------- MODULE MCGrounding -----------------------------
(* The instance of Grounding for TLC: a small parent, one of half of the    *)
(* memory, one of three quarters, and one too large to be cached.          *)
EXTENDS Grounding

CONSTANTS small, half, large, huge

MCSize == [i \in Ids |-> CASE i = small -> 1 [] i = half -> 2
                          [] i = large -> 3 [] i = huge -> 4]
=============================================================================
