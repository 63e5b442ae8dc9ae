--------------------------- MODULE MCJobLifecycle ---------------------------
(***************************************************************************)
(* Instances of JobLifecycle for TLC: three submissions, so that one       *)
(* repeated with its key meets every fate of the first while a job with    *)
(* another key is under way.  MCLiveness takes two, one queued behind the  *)
(* other.                                                                  *)
(***************************************************************************)
EXTENDS JobLifecycle, TLC

CONSTANTS j1, k1

Symmetry == Permutations(Jobs) \cup Permutations(Keys)

\* The deadline of one job passes while the others are in time: nothing compares deadlines.
OneExpires == Cardinality(expired) <= 1

\* The same without SYMMETRY: it is the deadline of j1.
FirstExpires == expired \subseteq {j1}

\* The key of j1 is k1: nothing tells the keys apart.
KeysInOrder == KeyOf[j1] = k1
=============================================================================
