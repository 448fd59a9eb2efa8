----------------------------- MODULE MCRenewal -----------------------------
(* Small instances of Renewal for TLC.                                     *)
EXTENDS Renewal, TLC

CONSTANTS t1, l1, l2

\* Every target has a server of its own, which an edit may change.
MCFirstPlaces == [t \in Targets |-> IF t = t1 THEN l1 ELSE l2]
=============================================================================
