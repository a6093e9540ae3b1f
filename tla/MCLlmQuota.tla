----------------------------- MODULE MCLlmQuota -----------------------------
(***************************************************************************)
(* An instance of LlmQuota for TLC.                                        *)
(***************************************************************************)
EXTENDS LlmQuota, FiniteSets, TLC

CONSTANTS u1, r1, r2, r3

\* The usage of one request reaches the limit.
OneReachesLimit == [u \in Users |-> {S \in SUBSET Reqs : Cardinality(S) >= 1}]

RequestSymmetry == Permutations(Reqs)
=============================================================================
