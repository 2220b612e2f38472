--------------------------- MODULE MCWriteVolume ----------------------------
(* Instances of WriteVolume for TLC.                                       *)
EXTENDS WriteVolume
=============================================================================
