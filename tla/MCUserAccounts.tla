--------------------------- MODULE MCUserAccounts ---------------------------
(***************************************************************************)
(* Instances of UserAccounts for TLC.                                      *)
(***************************************************************************)
EXTENDS UserAccounts, TLC

\* The cfg's model values.
CONSTANTS u1, u2, p1, p2, x1, id1, id2, s1, s2, r1, r2

\* All but the slots' contents is interchangeable.
Interchangeable ==
    Permutations({u1, u2}) \cup Permutations({p1, p2}) \cup Permutations({id1, id2})
    \cup Permutations({s1, s2}) \cup Permutations({r1, r2})
=============================================================================
