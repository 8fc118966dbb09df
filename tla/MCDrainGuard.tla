----------------------------- MODULE MCDrainGuard -----------------------------
(***************************************************************************)
(* DrainGuard for TLC: two completing and two granting threads, a bucket   *)
(* of two tokens, thirds instead of thousandths.                           *)
(***************************************************************************)
EXTENDS DrainGuard, TLC

CONSTANTS c1, c2, g1, g2

Threads == Permutations(Completers) \cup Permutations(Granters)
===============================================================================
