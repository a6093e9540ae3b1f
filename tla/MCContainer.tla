---------------------------- MODULE MCContainer ----------------------------
(* Instances of ContainerLifecycle for TLC.                                *)
EXTENDS ContainerProperties, TLC

CONSTANTS u1, u2, p1, p2, i1, i2, i3, i4, i5, i6

\* Short ids that tell all users apart.
DistinctShortIds == [u \in Users |-> u]

\* u1 comes from an older deployment with a container of another name.
OldContainer == u1 :> i1
NoOldContainer == [u \in {} |-> i1]

FreshSymmetry == Permutations({i2, i3, i4, i5, i6} \cap Ids) \cup Permutations(Procs)
=============================================================================
