--------------------------- MODULE MCBridgeStores ---------------------------
(***************************************************************************)
(* An instance of BridgeStores for TLC: two repositories and a path, all   *)
(* of one name.                                                            *)
(***************************************************************************)
EXTENDS BridgeStores, TLC

CONSTANTS a, b, l, n1

MCSources == {a, b, l}
MCGit     == {a, b}
MCNames   == {n1}
MCNameOf  == [s \in MCSources |-> n1]

\* Marketplaces and configuration share the event loop and the deaths: here
\* one rests while the other is used.  Two writers overlap while nobody has
\* replaced what the gateway needs or made the model an object.
Resting == file \in {Nothing, Cut, Default} /\ \A w \in Writers : draft[w] = Nothing

Unused == Idle /\ faults = 0 /\ registry.entries = {}

Plainly(c) == c \in Content => c.own /\ ~c.object

Bounded ==
    /\ Unused \/ Resting
    /\ (\A w \in Writers : draft[w] # Nothing)
       => /\ Plainly(file) /\ Plainly(view)
          /\ \A w \in Writers : Plainly(draft[w].to)

StoresSymmetry == Permutations(Items) \cup Permutations(Writers)
=============================================================================
