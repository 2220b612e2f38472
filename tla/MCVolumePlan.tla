---------------------------- MODULE MCVolumePlan ----------------------------
(* Instances of VolumePlan for TLC.                                        *)
EXTENDS VolumePlan
=============================================================================
