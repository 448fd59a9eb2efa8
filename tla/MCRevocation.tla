---------------------------- MODULE MCRevocation ----------------------------
(* Small instances of Revocation for TLC.                                  *)
EXTENDS Revocation, TLC

\* Requests are interchangeable, and so are certificates: sound for the safety
\* runs, never used with a liveness property.
Symmetry == Permutations(Requests) \cup Permutations(Certs)
=============================================================================
