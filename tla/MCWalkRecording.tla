---------------------------- MODULE MCWalkRecording ----------------------------
(* Small instances of walk recording for TLC. *)
EXTENDS WalkRecordingProperties, TLC

CONSTANTS v1, v2

OneWalk == {v1}
TwoWalks == {v1, v2}
WalkSymmetry == Permutations(Walks)
==============================================================================
