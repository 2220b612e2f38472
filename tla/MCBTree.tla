------------------------------ MODULE MCBTree -------------------------------
(* Instances of BTree for TLC: a node of a few bytes, one bit of map in a  *)
(* byte, so that a handful of records needs index levels and map nodes.    *)
EXTENDS BTree
=============================================================================
