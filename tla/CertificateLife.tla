--------------------------- MODULE CertificateLife ---------------------------
(***************************************************************************)
(* What Certio promises about the revocation of a certificate, as a client *)
(* of its OCSP responder and the README see it: "certificateHold is        *)
(* reversible; everything else is not" (README.md:67).  The specification  *)
(* knows neither rows nor statements; Revocation implements it.            *)
(***************************************************************************)
CONSTANT Certs

VARIABLE answer     \* what is known of each certificate

Answers == {"good", "held", "revoked", "unknown"}

TypeOK == answer \in [Certs -> Answers]

Init == answer = [c \in Certs |-> "good"]

\* A certificate in good standing is put on hold, or revoked for good.
Revoke(c) ==
    /\ answer[c] = "good"
    /\ \E a \in {"held", "revoked"} : answer' = [answer EXCEPT ![c] = a]

\* "the decision the hold was waiting on" (certificate.go:479): it becomes a
\* revocation, without the certificate being good in between.
Escalate(c) == answer[c] = "held" /\ answer' = [answer EXCEPT ![c] = "revoked"]

\* Only a hold can be released.
Release(c) == answer[c] = "held" /\ answer' = [answer EXCEPT ![c] = "good"]

\* The record is deleted, whatever it said, and does not come back.
Forget(c) == answer' = [answer EXCEPT ![c] = "unknown"]

Next == \E c \in Certs : Revoke(c) \/ Escalate(c) \/ Release(c) \/ Forget(c)

Spec == Init /\ [][Next]_answer
==============================================================================
