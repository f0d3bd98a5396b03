-------------------------- MODULE MCEphemeralKeys --------------------------
(***************************************************************************)
(* Instances of EphemeralKeys for TLC.                                     *)
(***************************************************************************)
EXTENDS EphemeralKeys, TLC

\* The cfg's model values.
CONSTANTS r1, r2, e1, e2, a1, a2, k1, k2

\* Runs, environments, and data keys are interchangeable.
Interchangeable == Permutations({r1, r2}) \cup Permutations({e1, e2}) \cup Permutations({k1, k2})
=============================================================================
