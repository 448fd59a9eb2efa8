----------------------------- MODULE MCAcmeOrder -----------------------------
(* Small instances of AcmeOrder for TLC.                                   *)
EXTENDS AcmeOrder, TLC

\* Requests are interchangeable, and so are accounts: sound for safety.
Symmetry == Permutations(Requests) \cup Permutations(Accounts)

\* So are names, where none is a wildcard and every order has all of them.
NameSymmetry == Symmetry \cup Permutations(Names)
==============================================================================
