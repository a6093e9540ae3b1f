--------------------------- MODULE MCSharedRuntime ---------------------------
(***************************************************************************)
(* An instance of SharedRuntime for TLC: one user asks for two titles and  *)
(* sets one.                                                               *)
(***************************************************************************)
EXTENDS SharedRuntime

CONSTANTS a, b, c, u

MCRequests == {a, b, c}
MCSessions == {u}
MCSession == [r \in MCRequests |-> u]
MCRenames == {c}
=============================================================================
