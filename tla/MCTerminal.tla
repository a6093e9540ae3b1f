----------------------------- MODULE MCTerminal -----------------------------
(***************************************************************************)
(* An instance of TerminalRelay for TLC.                                   *)
(***************************************************************************)
EXTENDS TerminalRelay

CONSTANTS w1, w2, k1, k2, s1, s2

MCSockets == {w1, w2}
MCKeys == {k1, k2}
MCShells == {s1, s2}
=============================================================================
