---------------------------- MODULE MCCubeAudio ----------------------------
(* Instances of CubeAudio for TLC.                                         *)
EXTENDS CubeAudio
=============================================================================
