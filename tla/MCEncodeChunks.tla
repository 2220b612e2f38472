--------------------------- MODULE MCEncodeChunks ---------------------------
(* Instances of EncodeChunks for TLC.  The workers are interchangeable.    *)
EXTENDS EncodeChunks, TLC

WorkerSymmetry == Permutations(Workers)
=============================================================================
