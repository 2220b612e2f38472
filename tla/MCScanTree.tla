---------------------------- MODULE MCScanTree ------------------------------
(* Instances of ScanTree for TLC.                                          *)
EXTENDS ScanTree

\* Names 1 and 2 become one name; 3 does not.
Colliding == <<1, 1, 2>>
\* Every name has its own, but name 3 is too long.
Distinct == <<1, 2, TooLong>>
=============================================================================
