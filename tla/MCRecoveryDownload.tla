------------------------- MODULE MCRecoveryDownload -------------------------
(***************************************************************************)
(* Instances of RecoveryDownload for TLC: three requests, two ranges and   *)
(* three names; a pair of requests is enough for the race at completion.   *)
(***************************************************************************)
EXTENDS RecoveryDownload, TLC

CONSTANTS r1, r2, r3, p1, p2, n1, n2, n3

MCRequests == {r1, r2, r3}
MCPair == {r1, r2}
MCRangeIds == {p1, p2}
MCNames == {n1, n2, n3}

Symmetry == Permutations(MCRequests) \cup Permutations(MCRangeIds) \cup Permutations({n2, n3})
=============================================================================
