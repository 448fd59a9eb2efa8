------------------------------ MODULE MCNotify ------------------------------
(* Instances of Notify for TLC. *)
EXTENDS Notify

\* Shorter than the six attempts: the last interval is used twice.
MCBackoff == <<0, 1>>
=============================================================================
