-------------------------- MODULE MCCameraMetadata --------------------------
(* CameraMetadata for TLC: addresses and objects are interchangeable. *)
EXTENDS CameraMetadata, TLC

Symmetry == Permutations(Objs) \cup Permutations(Bufs)
=============================================================================
