---------------------------- MODULE MCFrameImage ----------------------------
(* Instances of FrameImage for TLC: a map of a few sectors.                *)
EXTENDS FrameImage
=============================================================================
