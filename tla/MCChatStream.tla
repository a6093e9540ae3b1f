---------------------------- MODULE MCChatStream ----------------------------
(***************************************************************************)
(* An instance of ChatStream for TLC.                                      *)
(***************************************************************************)
EXTENDS ChatStream

CONSTANTS s1, s2

MCTwo == {s1, s2}
=============================================================================
