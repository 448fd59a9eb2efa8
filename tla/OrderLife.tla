------------------------------ MODULE OrderLife ------------------------------
(***************************************************************************)
(* What an ACME order goes through, as a client that polls it should see   *)
(* it (RFC 8555 section 7.1.6, which models_acme.go:9 says the statuses    *)
(* mirror): proofs are collected while it is pending, it is ready when all *)
(* of them are in, it gets one certificate, and valid and invalid are      *)
(* final.  AcmeOrder implements it while its requests do not overlap.      *)
(***************************************************************************)
CONSTANTS Orders, Names

VARIABLE order      \* what each order shows

Blank == [status |-> "none", names |-> {}, proofs |-> {}, certs |-> {}]
Gone  == [status |-> "gone", names |-> {}, proofs |-> {}, certs |-> {}]

Init == order = [o \in Orders |-> Blank]

Open(o) ==
    /\ order[o] = Blank
    /\ \E S \in (SUBSET Names) \ {{}} :
          order' = [order EXCEPT ![o] = [Blank EXCEPT !.status = "pending", !.names = S]]

\* The owner has shown that it controls the name n, for this order.
Prove(o, n) ==
    /\ n \in order[o].names \ order[o].proofs
    /\ order' = [order EXCEPT ![o].proofs = @ \cup {n}]

MakeReady(o) ==
    /\ order[o].status = "pending" /\ order[o].proofs = order[o].names
    /\ order' = [order EXCEPT ![o].status = "ready"]

\* A name could not be proved, or the CSR asked for something else.
Reject(o) ==
    /\ order[o].status \in {"pending", "ready"} /\ order[o].certs = {}
    /\ order' = [order EXCEPT ![o].status = "invalid"]

Issue(o) ==
    /\ order[o].status = "ready" /\ order[o].certs = {}
    /\ \E c \in Orders : order' = [order EXCEPT ![o].certs = {c}]

Deliver(o) ==
    /\ order[o].status = "ready" /\ order[o].certs # {}
    /\ order' = [order EXCEPT ![o].status = "valid"]

\* The server forgets orders that have expired; what is gone stays gone.
Forget(O) == order' = [o \in Orders |-> IF o \in O THEN Gone ELSE order[o]]

Next ==
    \/ \E o \in Orders : Open(o) \/ MakeReady(o) \/ Reject(o) \/ Issue(o) \/ Deliver(o)
    \/ \E o \in Orders, n \in Names : Prove(o, n)
    \/ \E O \in SUBSET Orders : Forget(O)

Spec == Init /\ [][Next]_order
==============================================================================
