--------------------------- MODULE MCCreateImage ----------------------------
(* Instances of CreateImage for TLC.                                       *)
EXTENDS CreateImage

\* The list of the names takes two units for each.
TwoEach == [S \in SUBSET AttrNames |-> 2 * Cardinality(S)]
\* The names stay apart, become one, or are too long.
Apart == CHOOSE f \in [AttrNames -> Keys] : \A m, n \in AttrNames : f[m] = f[n] => m = n
SomeKeys == {Apart} \cup {[n \in AttrNames |-> k] : k \in {1, TooLong}}
=============================================================================
