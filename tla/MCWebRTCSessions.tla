-------------------------- MODULE MCWebRTCSessions --------------------------
(***************************************************************************)
(* Instances of WebRTCSessions for TLC.                                    *)
(***************************************************************************)
EXTENDS WebRTCSessions, TLC

CONSTANTS s1, s2, e1, e2

MCSessions == {s1, s2}
MCEnders == {e1, e2}
MCSymmetry == Permutations(MCSessions) \cup Permutations(MCEnders)
=============================================================================
