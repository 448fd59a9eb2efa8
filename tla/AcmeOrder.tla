----------------------------- MODULE AcmeOrder -----------------------------
(***************************************************************************)
(* The ACME server: an order, the authorizations and challenges under it,  *)
(* and the certificate it ends in (service/acme.go).                       *)
(*                                                                         *)
(* A request is one delivery of a signed POST.  Its handler reads and      *)
(* writes rows one statement at a time, and saves whole rows it has read   *)
(* before; only PruneOrders is a transaction.  A request that opens an     *)
(* order is the identity of the order, one that finalizes an order the     *)
(* identity of the certificate.                                            *)
(*                                                                         *)
(* An order keeps its account and identifiers for ever, so they are read   *)
(* from the call that opened it; its row has the columns that change.      *)
(***************************************************************************)
EXTENDS Naturals, FiniteSets

CONSTANTS
    Requests,       \* the POSTs the server receives
    Accounts,       \* the registered accounts, all valid
    Names,          \* the DNS identifiers
    Wildcards,      \* the names that begin with "*."
    OrderNames,     \* the sets of identifiers that are ordered
    DNS01, HTTP01,  \* the challenge types the configuration enables
    Kinds,          \* the requests and jobs this instance has
    OrderList,      \* TRUE: clients use orders the account's list shows them
    Serial,         \* TRUE: a request or job starts only while no other one runs
    MaxAttempts,    \* maxChallengeAttempts
    MaxFailures,    \* bound: how many statements fail or processes crash
    None            \* no row, no certificate, no argument

ASSUME AcmeKindsAssumption == Kinds \subseteq {"newOrder", "challenge", "finalize", "prune"}
ASSUME AcmeNamesAssumption ==
    Wildcards \subseteq Names /\ OrderNames \subseteq (SUBSET Names) \ {{}}
ASSUME AcmeFlagsAssumption == {DNS01, HTTP01, OrderList, Serial} \subseteq BOOLEAN
ASSUME AcmeBoundAssumption == MaxAttempts \in Nat /\ MaxFailures \in Nat
ASSUME AcmeNoneAssumption  == None \notin Requests \cup Accounts \cup Names

Types == {"dns-01", "http-01"}

\* "http-01 cannot prove a wildcard ... so it is simply not offered for one."
Offered(n) ==
    (IF DNS01 THEN {"dns-01"} ELSE {})
      \cup (IF HTTP01 /\ n \notin Wildcards THEN {"http-01"} ELSE {})

-----------------------------------------------------------------------------
(* Rows                                                                    *)

Absent == "absent"

OrderRows     == [status : {"pending", "ready", "valid", "invalid"},
                  cert : Requests \cup {None}]
ChallengeRows == [status : {"pending", "processing", "valid", "invalid"},
                  attempts : Nat]
ASSUME AcmeRowsAssumption == None \notin OrderRows \cup ChallengeRows

AuthzStatuses == {"pending", "valid", "invalid", Absent}
Certificates  == [id : Requests, order : Requests, account : Accounts, names : SUBSET Names]

AuthzIds     == Requests \X Names
ChallengeIds == Requests \X Names \X Types

Calls ==
    LET Made(kind, accounts, targets, names, types, sets) ==
          [kind : {kind} \cap Kinds, account : accounts, order : targets,
           name : names, type : types, names : sets]
    IN  Made("newOrder", Accounts, {None}, {None}, {None}, OrderNames)
          \cup Made("challenge", Accounts, Requests, Names, Types, {{}})
          \cup Made("finalize", Accounts, Requests, {None}, {None}, SUBSET Names)

NoCall == [kind |-> "none", account |-> None, order |-> None,
           name |-> None, type |-> None, names |-> {}]

VARIABLES
    orders,     \* the orders table, None where there is no row
    authzs,     \* the status column of the authorizations table
    challenges, \* the challenges table
    certs,      \* the certificates that were signed
    nonces,     \* the nonces nobody has spent: one was minted per request
    expired,    \* the orders whose expires_at has passed
    pc,         \* the next statement of each request
    call,       \* what each request asks
    jws,        \* the request whose signed body, and nonce, each one carries
    result,     \* what each request answered
    todo,       \* the names new-order still has to insert
    cur,        \* the name it is inserting
    row,        \* the order row a request has read
    attempts,   \* the attempts of the challenge a request is making
    proven,     \* the names each account has shown to the validator it controls
    rushed,     \* the orders judged ready by fewer authorizations than they have names
    failures    \* how many failures there have been

tables   == <<orders, authzs, challenges, certs>>
memory   == <<todo, cur, row, attempts>>
vars     == <<tables, nonces, expired, pc, call, jws, result, memory, proven, rushed, failures>>

NewRow == [status |-> "pending", cert |-> None]

OrderSteps     == {"orderInsert", "authzInsert", "challengeInsert"}
ChallengeSteps == {"challengeRead", "markProcessing", "settle"}
ProofSteps     == {"authzValid", "orderRead", "authzList", "orderReady"}
DenialSteps    == {"challengeList", "authzInvalid", "orderFailRead", "orderInvalid"}
FinalizeSteps  == {"finalizeRead", "sign", "attach", "orderReject"}
Resting        == {"idle", "done"}
Steps == Resting \cup OrderSteps \cup ChallengeSteps \cup ProofSteps
           \cup DenialSteps \cup FinalizeSteps

TablesOK ==
    /\ orders \in [Requests -> OrderRows \cup {None}]
    /\ authzs \in [AuthzIds -> AuthzStatuses]
    /\ challenges \in [ChallengeIds -> ChallengeRows \cup {None}]
    /\ certs \subseteq Certificates
    /\ nonces \subseteq Requests /\ expired \subseteq Requests
    /\ proven \subseteq Accounts \X Names /\ rushed \subseteq Requests

RequestsOK ==
    /\ pc \in [Requests -> Steps]
    /\ call \in [Requests -> Calls \cup {NoCall}]
    /\ jws \in [Requests -> Requests \cup {None}]
    /\ result \in [Requests -> {"none", "ok", "error", "badNonce"}]

MemoryOK ==
    /\ todo \in [Requests -> SUBSET Names]
    /\ cur \in [Requests -> Names \cup {None}]
    /\ row \in [Requests -> OrderRows]
    /\ attempts \in [Requests -> Nat]

TypeOK == TablesOK /\ RequestsOK /\ MemoryOK /\ failures \in Nat

Init ==
    /\ orders = [o \in Requests |-> None]
    /\ authzs = [a \in AuthzIds |-> Absent]
    /\ challenges = [c \in ChallengeIds |-> None]
    /\ certs = {}
    /\ nonces = Requests
    /\ expired = {}
    /\ pc = [r \in Requests |-> "idle"]
    /\ call = [r \in Requests |-> NoCall]
    /\ jws = [r \in Requests |-> None]
    /\ result = [r \in Requests |-> "none"]
    /\ todo = [r \in Requests |-> {}]
    /\ cur = [r \in Requests |-> None]
    /\ row = [r \in Requests |-> NewRow]
    /\ attempts = [r \in Requests |-> 0]
    /\ proven = {}
    /\ rushed = {}
    /\ failures = 0

-----------------------------------------------------------------------------
(* Steps every handler shares                                              *)

Goto(r, label) == pc' = [pc EXCEPT ![r] = label]

Stop(r, answer) ==
    /\ Goto(r, "done")
    /\ result' = [result EXCEPT ![r] = answer]
    /\ todo' = [todo EXCEPT ![r] = {}]
    /\ cur' = [cur EXCEPT ![r] = None]
    /\ row' = [row EXCEPT ![r] = NewRow]
    /\ attempts' = [attempts EXCEPT ![r] = 0]

Order(r)     == call[r].order
Authz(r)     == <<call[r].order, call[r].name>>
Challenge(r) == <<call[r].order, call[r].name, call[r].type>>
OwnerAsks(r) == call[Order(r)].account = call[r].account

\* A client knows an order from the answer of new-order, or from the list of
\* its orders, which has the row as soon as it is inserted.
Known(o) ==
    /\ call[o].kind = "newOrder"
    /\ result[o] = "ok" \/ (OrderList /\ orders[o] # None)

\* What a client may ask next: about an order and a name it knows.
Sendable(k) ==
    CASE k.kind = "newOrder"  -> TRUE
      [] k.kind = "challenge" ->
           Known(k.order) /\ k.name \in call[k.order].names /\ k.type \in Offered(k.name)
      [] OTHER -> Known(k.order)

FirstStep == [newOrder |-> "orderInsert", challenge |-> "challengeRead",
              finalize |-> "finalizeRead"]

MayStart == Serial => \A q \in Requests : pc[q] \in Resting

SpendNonce_ReadOnly(n) == nonces' = nonces

\* "The delete is the check": one statement tests the nonce and consumes it.
SpendNonce(n) == nonces' = nonces \ {n}

\* verifyACME: the request carries its own signed body, or is another delivery
\* of one that was received before.
Receive(r, q, k) ==
    /\ pc[r] = "idle" /\ MayStart
    /\ IF q = r THEN Sendable(k) ELSE jws[q] = q /\ k = call[q]
    /\ jws' = [jws EXCEPT ![r] = q]
    /\ call' = [call EXCEPT ![r] = k]
    /\ IF q \in nonces
         THEN /\ SpendNonce(q)
              /\ Goto(r, FirstStep[k.kind])
              /\ todo' = [todo EXCEPT ![r] = IF k.kind = "newOrder" THEN k.names ELSE {}]
              /\ UNCHANGED <<result, cur, row, attempts>>
         ELSE Stop(r, "badNonce") /\ UNCHANGED nonces
    /\ UNCHANGED <<tables, expired, proven, rushed, failures>>

-----------------------------------------------------------------------------
(* ACMENewOrder: the order, then each authorization with its challenges    *)

OrderInsert(r) ==
    /\ pc[r] = "orderInsert"
    /\ orders' = [orders EXCEPT ![r] = NewRow]
    /\ Goto(r, "authzInsert")
    /\ UNCHANGED <<authzs, challenges, certs, nonces, expired, call, jws, result,
                   memory, proven, rushed, failures>>

AuthzInsert(r) ==
    /\ pc[r] = "authzInsert"
    /\ \E n \in todo[r] :
          /\ authzs' = [authzs EXCEPT ![<<r, n>>] = "pending"]
          /\ todo' = [todo EXCEPT ![r] = @ \ {n}]
          /\ cur' = [cur EXCEPT ![r] = n]
    /\ Goto(r, "challengeInsert")
    /\ UNCHANGED <<orders, challenges, certs, nonces, expired, call, jws, result,
                   row, attempts, proven, rushed, failures>>

\* createChallenges: one row per type, or a problem when no type is offered.
ChallengeInsert(r) ==
    LET left == {t \in Offered(cur[r]) : challenges[<<r, cur[r], t>>] = None} IN
    /\ pc[r] = "challengeInsert"
    /\ IF Offered(cur[r]) = {}
         THEN Stop(r, "error") /\ UNCHANGED challenges
         ELSE \E t \in left :
                /\ "dns-01" \in left => t = "dns-01"
                /\ challenges' = [challenges EXCEPT ![<<r, cur[r], t>>] =
                                    [status |-> "pending", attempts |-> 0]]
                /\ IF left = {t} /\ todo[r] = {}
                     THEN Stop(r, "ok")
                     ELSE /\ Goto(r, IF left = {t} THEN "authzInsert" ELSE "challengeInsert")
                          /\ UNCHANGED <<result, memory>>
    /\ UNCHANGED <<orders, authzs, certs, nonces, expired, call, jws, proven, rushed, failures>>

-----------------------------------------------------------------------------
(* ACMEValidateChallenge                                                   *)

\* "Re-triggering a settled challenge is a no-op, not an error."
Settled(c) == challenges[c].status \in {"valid", "invalid"}

ChallengeRead(r) ==
    /\ pc[r] = "challengeRead"
    /\ IF challenges[Challenge(r)] = None \/ authzs[Authz(r)] = Absent \/ ~OwnerAsks(r)
         THEN Stop(r, "error")
         ELSE IF Settled(Challenge(r))
         THEN Stop(r, "ok")
         ELSE IF challenges[Challenge(r)].attempts >= MaxAttempts
         THEN Stop(r, "error")
         ELSE /\ attempts' = [attempts EXCEPT ![r] = challenges[Challenge(r)].attempts + 1]
              /\ Goto(r, "markProcessing")
              /\ UNCHANGED <<result, todo, cur, row>>
    /\ UNCHANGED <<tables, nonces, expired, call, jws, proven, rushed, failures>>

Marked_WrongStatus(r) == [status |-> "ready", attempts |-> attempts[r]]

Marked(r) == [status |-> "processing", attempts |-> attempts[r]]

MarkProcessing(r) ==
    /\ pc[r] = "markProcessing"
    /\ challenges' = [challenges EXCEPT ![Challenge(r)] = Marked(r)]
    /\ Goto(r, "settle")
    /\ UNCHANGED <<orders, authzs, certs, nonces, expired, call, jws, result,
                   memory, proven, rushed, failures>>

\* The validator dials out, and the outcome is saved over whatever the row
\* says by then.
Settle(r) ==
    /\ pc[r] = "settle"
    /\ \E proved \in BOOLEAN :
          /\ challenges' = [challenges EXCEPT ![Challenge(r)] =
                              [status |-> IF proved THEN "valid" ELSE "invalid",
                               attempts |-> attempts[r]]]
          /\ proven' = IF proved THEN proven \cup {<<call[r].account, call[r].name>>}
                                 ELSE proven
          /\ Goto(r, IF proved THEN "authzValid" ELSE "challengeList")
    /\ UNCHANGED <<orders, authzs, certs, nonces, expired, call, jws, result,
                   memory, rushed, failures>>

AuthzValid(r) ==
    /\ pc[r] = "authzValid"
    /\ authzs' = [authzs EXCEPT ![Authz(r)] = "valid"]
    /\ Goto(r, "orderRead")
    /\ UNCHANGED <<orders, challenges, certs, nonces, expired, call, jws, result,
                   memory, proven, rushed, failures>>

\* refreshOrderStatus: a pending order, then its authorizations, then the save.
OrderRead(r) ==
    /\ pc[r] = "orderRead"
    /\ IF orders[Order(r)] # None /\ orders[Order(r)].status = "pending"
         THEN /\ row' = [row EXCEPT ![r] = orders[Order(r)]]
              /\ Goto(r, "authzList")
              /\ UNCHANGED <<result, todo, cur, attempts>>
         ELSE Stop(r, "ok")
    /\ UNCHANGED <<tables, nonces, expired, call, jws, proven, rushed, failures>>

\* Every authorization row the order has: none that was not inserted yet.
AllValid(o) == \A n \in Names : authzs[<<o, n>>] \in {"valid", Absent}

\* Each name of the order has its row.
AllListed(o) == \A n \in call[o].names : authzs[<<o, n>>] # Absent

\* Nothing compares the rows with the names of the order.
AuthzList(r) ==
    /\ pc[r] = "authzList"
    /\ IF AllValid(Order(r))
         THEN /\ Goto(r, "orderReady")
              /\ rushed' = IF AllListed(Order(r)) THEN rushed ELSE rushed \cup {Order(r)}
              /\ UNCHANGED <<result, memory>>
         ELSE Stop(r, "ok") /\ UNCHANGED rushed
    /\ UNCHANGED <<tables, nonces, expired, call, jws, proven, failures>>

OrderReady_AsValid(r) ==
    /\ pc[r] = "orderReady"
    /\ orders' = [orders EXCEPT ![Order(r)] = [status |-> "valid", cert |-> row[r].cert]]
    /\ Stop(r, "ok")
    /\ UNCHANGED <<authzs, challenges, certs, nonces, expired, call, jws, proven, rushed, failures>>

OrderReady(r) ==
    /\ pc[r] = "orderReady"
    /\ orders' = [orders EXCEPT ![Order(r)] = [status |-> "ready", cert |-> row[r].cert]]
    /\ Stop(r, "ok")
    /\ UNCHANGED <<authzs, challenges, certs, nonces, expired, call, jws, proven, rushed, failures>>

Exhausted_BothTypes(o, n) ==
    \A t \in Types : challenges[<<o, n, t>>] # None /\ challenges[<<o, n, t>>].status = "invalid"

\* failAuthorizationIfExhausted: no challenge on it can still succeed.
Exhausted(o, n) ==
    \A t \in Types : challenges[<<o, n, t>>] # None => challenges[<<o, n, t>>].status = "invalid"

ChallengeList(r) ==
    /\ pc[r] = "challengeList"
    /\ IF Exhausted(Order(r), call[r].name)
         THEN Goto(r, "authzInvalid") /\ UNCHANGED <<result, memory>>
         ELSE Stop(r, "ok")
    /\ UNCHANGED <<tables, nonces, expired, call, jws, proven, rushed, failures>>

AuthzInvalid(r) ==
    /\ pc[r] = "authzInvalid"
    /\ authzs' = [authzs EXCEPT ![Authz(r)] = "invalid"]
    /\ Goto(r, "orderFailRead")
    /\ UNCHANGED <<orders, challenges, certs, nonces, expired, call, jws, result,
                   memory, proven, rushed, failures>>

OrderFailRead(r) ==
    /\ pc[r] = "orderFailRead"
    /\ IF orders[Order(r)] # None
         THEN /\ row' = [row EXCEPT ![r] = orders[Order(r)]]
              /\ Goto(r, "orderInvalid")
              /\ UNCHANGED <<result, todo, cur, attempts>>
         ELSE Stop(r, "ok")
    /\ UNCHANGED <<tables, nonces, expired, call, jws, proven, rushed, failures>>

OrderInvalid(r) ==
    /\ pc[r] = "orderInvalid"
    /\ orders' = [orders EXCEPT ![Order(r)] = [status |-> "invalid", cert |-> row[r].cert]]
    /\ Stop(r, "ok")
    /\ UNCHANGED <<authzs, challenges, certs, nonces, expired, call, jws, proven, rushed, failures>>

-----------------------------------------------------------------------------
(* ACMEFinalize                                                            *)

\* checkCSRAgainstOrder: nothing the order did not authorise, and something.
\* Fewer names than the order has are accepted, although the comments say
\* "exactly" (acme.go:536, :592).
Authorised(r) == call[r].names # {} /\ call[r].names \subseteq call[Order(r)].names

AfterFinalizeRead_SignsAgain(r) ==
    CASE orders[Order(r)].status \in {"ready", "valid"} -> IF Authorised(r) THEN "sign" ELSE "orderReject"
      [] OTHER -> "error"

AfterFinalizeRead_WhilePending(r) ==
    CASE orders[Order(r)].status \in {"pending", "ready"} -> IF Authorised(r) THEN "sign" ELSE "orderReject"
      [] orders[Order(r)].status = "valid" -> "ok"
      [] OTHER -> "error"

\* By the status of the row: "Already finalised; a client that lost the
\* response gets the order."
AfterFinalizeRead(r) ==
    CASE orders[Order(r)].status = "ready" -> IF Authorised(r) THEN "sign" ELSE "orderReject"
      [] orders[Order(r)].status = "valid" -> "ok"
      [] OTHER -> "error"

FinalizeRead(r) ==
    /\ pc[r] = "finalizeRead"
    /\ IF orders[Order(r)] = None \/ ~OwnerAsks(r)
         THEN Stop(r, "error")
         ELSE IF AfterFinalizeRead(r) \in {"ok", "error"}
         THEN Stop(r, AfterFinalizeRead(r))
         ELSE /\ row' = [row EXCEPT ![r] = orders[Order(r)]]
              /\ Goto(r, AfterFinalizeRead(r))
              /\ UNCHANGED <<result, todo, cur, attempts>>
    /\ UNCHANGED <<tables, nonces, expired, call, jws, proven, rushed, failures>>

Sign(r) ==
    /\ pc[r] = "sign"
    /\ certs' = certs \cup {[id |-> r, order |-> Order(r), account |-> call[r].account,
                             names |-> call[r].names]}
    /\ Goto(r, "attach")
    /\ UNCHANGED <<orders, authzs, challenges, nonces, expired, call, jws, result,
                   memory, proven, rushed, failures>>

Attached(r) == [status |-> "valid", cert |-> r]

Attach(r) ==
    /\ pc[r] = "attach"
    /\ orders' = [orders EXCEPT ![Order(r)] = Attached(r)]
    /\ Stop(r, "ok")
    /\ UNCHANGED <<authzs, challenges, certs, nonces, expired, call, jws, proven, rushed, failures>>

OrderReject(r) ==
    /\ pc[r] = "orderReject"
    /\ orders' = [orders EXCEPT ![Order(r)] = [status |-> "invalid", cert |-> row[r].cert]]
    /\ Stop(r, "error")
    /\ UNCHANGED <<authzs, challenges, certs, nonces, expired, call, jws, proven, rushed, failures>>

-----------------------------------------------------------------------------
(* Time, the scheduler's prune job, and failures                           *)

\* orderTTL is a week: no request is still opening the order by then.  Nothing
\* but the prune job looks at expires_at.
Expire(o) ==
    /\ "prune" \in Kinds
    /\ call[o].kind = "newOrder" /\ pc[o] = "done" /\ o \notin expired
    /\ expired' = expired \cup {o}
    /\ UNCHANGED <<tables, nonces, pc, call, jws, result, memory, proven, rushed, failures>>

\* PruneOrders is one transaction: the rows under an order go with its row.
Prune ==
    LET stale == {o \in expired : orders[o] # None} IN
    /\ "prune" \in Kinds /\ MayStart /\ stale # {}
    /\ orders' = [o \in Requests |-> IF o \in stale THEN None ELSE orders[o]]
    /\ authzs' = [a \in AuthzIds |-> IF a[1] \in stale THEN Absent ELSE authzs[a]]
    /\ challenges' = [c \in ChallengeIds |->
                        IF c[1] \in stale /\ authzs[<<c[1], c[2]>>] # Absent
                          THEN None ELSE challenges[c]]
    /\ UNCHANGED <<certs, nonces, expired, pc, call, jws, result, memory, proven, rushed, failures>>

\* The steps after the validation is recorded: their errors are only logged.
Logged == ProofSteps \cup DenialSteps

\* A statement returns an error, or the process dies before it.  Three errors
\* do not end the handler: the two saves of the challenge that are only logged,
\* and the signature that failed, which rejects the order.
Fail(r) ==
    /\ failures < MaxFailures
    /\ failures' = failures + 1
    /\ pc[r] \notin Resting
    /\ \/ Stop(r, IF pc[r] \in Logged \ {"authzValid"} THEN "ok" ELSE "error")
       \/ /\ \/ pc[r] = "markProcessing" /\ Goto(r, "settle")
             \/ pc[r] = "settle" /\ Goto(r, "challengeList")
             \/ pc[r] = "sign" /\ Goto(r, "orderReject")
          /\ UNCHANGED <<result, memory>>
    /\ UNCHANGED <<tables, nonces, expired, call, jws, proven, rushed>>

-----------------------------------------------------------------------------
RequestStep(r) ==
    \/ OrderInsert(r) \/ AuthzInsert(r) \/ ChallengeInsert(r)
    \/ ChallengeRead(r) \/ MarkProcessing(r) \/ Settle(r)
    \/ AuthzValid(r) \/ OrderRead(r) \/ AuthzList(r) \/ OrderReady(r)
    \/ ChallengeList(r) \/ AuthzInvalid(r) \/ OrderFailRead(r) \/ OrderInvalid(r)
    \/ FinalizeRead(r) \/ Sign(r) \/ Attach(r) \/ OrderReject(r)

Next ==
    \/ \E r \in Requests : (\E q \in Requests, k \in Calls : Receive(r, q, k))
                             \/ RequestStep(r) \/ Fail(r) \/ Expire(r)
    \/ Prune

Spec == Init /\ [][Next]_vars

-----------------------------------------------------------------------------
(* Properties                                                              *)

\* "Without this check a validated order for one name could be finalised into a
\* certificate for another" (acme.go:537-538): every name of every certificate
\* was proved by the account that finalized the order.  No run checks it: the
\* code breaks it where it judges an order ready by the rows inserted so far.
CertificatesAreProven ==
    \A c \in certs : \A n \in c.names : <<c.account, n>> \in proven

\* That judgement is the only way to it: however validations, finalizations,
\* new orders and their half-inserted rows overlap, a certificate names what
\* its account did not prove only where the order was found ready while it had
\* no authorization row for one of its names (acme.go:494).
UnprovenWereRushed ==
    \A c \in certs : \A n \in c.names :
       <<c.account, n>> \in proven \/ c.order \in rushed

\* "the names in the CSR have to be exactly the names that were proved"
\* (acme.go:592-593).  No run checks it: the code accepts a CSR of fewer names,
\* and the order becomes valid with a certificate that leaves some out.
CertificateNamesAll ==
    \A o \in Requests : orders[o] # None /\ orders[o].status = "valid" =>
       \A c \in certs : c.id = orders[o].cert => c.names = call[o].names

\* A client that polls a valid order finds a certificate to download: one that
\* was signed for this order, for its owner, and with none but its identifiers
\* (not all of them: CertificateNamesAll).
ValidOrderHasCertificate ==
    \A o \in Requests : orders[o] # None /\ orders[o].status = "valid" =>
       \E c \in certs : /\ c.id = orders[o].cert /\ c.order = o
                        /\ c.account = call[o].account /\ c.names \subseteq call[o].names

Decided(o) ==
    \/ \A n \in call[o].names : authzs[<<o, n>>] = "valid"
    \/ \E n \in call[o].names : /\ Offered(n) # {}
                                /\ \A t \in Offered(n) : /\ challenges[<<o, n, t>>] # None
                                                         /\ challenges[<<o, n, t>>].status = "invalid"

\* However the validations of its names overlap, an order is not left pending
\* when all of them have succeeded, or one has failed for good: a client polls
\* a pending order, and no later request would move it.
NoStuckOrder ==
    failures = 0 /\ (\A r \in Requests : pc[r] \in Resting) =>
       \A o \in Requests : orders[o] # None /\ orders[o].status = "pending" => ~Decided(o)

\* "which is what stops a captured request being replayed" (models_acme.go:167-168):
\* of all the deliveries of one signed request, the server acts on one.
NonceActsOnce ==
    \A r, q \in Requests :
       r # q /\ jws[r] # None /\ jws[r] = jws[q] => "badNonce" \in {result[r], result[q]}

\* "Already finalised; a client that lost the response gets the order"
\* (acme.go:520): an order that is valid stays valid, with its certificate,
\* until it is pruned.
ValidOrderStays ==
    [][\A o \in Requests : orders[o] # None /\ orders[o].status = "valid" =>
          orders'[o] \in {orders[o], None}]_vars

\* What a client that polls the order would see of it.
OrderView == [o \in Requests |->
    IF orders[o] = None
      THEN [status |-> IF call[o].kind = "newOrder" /\ pc[o] # "orderInsert" THEN "gone" ELSE "none",
            names |-> {}, proofs |-> {}, certs |-> {}]
      ELSE [status |-> orders[o].status,
            names  |-> call[o].names,
            proofs |-> {n \in Names : authzs[<<o, n>>] = "valid"},
            certs  |-> {c.id : c \in {d \in certs : d.order = o}}]]

\* While requests do not overlap and nothing fails, an order goes through the
\* life that RFC 8555 gives it.
Life == INSTANCE OrderLife WITH Orders <- Requests, order <- OrderView
ImplementsOrderLife == Life!Spec
=============================================================================
