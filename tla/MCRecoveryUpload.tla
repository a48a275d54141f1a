-------------------------- MODULE MCRecoveryUpload --------------------------
(***************************************************************************)
(* One upload of two parts and the requests about it: one starts it, the   *)
(* others resume or abort it, at any time.                                 *)
(***************************************************************************)
EXTENDS RecoveryUpload, TLC

CONSTANTS r1, r2, r3, p1, p2

MCRequests == {r1, r2, r3}
MCPair == {r1, r2}
MCPartIds == {p1, p2}
Symmetry == Permutations(MCRequests) \cup Permutations(MCPartIds)
=============================================================================
