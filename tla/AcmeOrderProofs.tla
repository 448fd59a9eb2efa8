-------------------------- MODULE AcmeOrderProofs --------------------------
(* Theorems about AcmeOrder, for every value of its constants.             *)
EXTENDS AcmeOrder, TLAPS

AboutOrder == {"challenge", "finalize"}

\* What the arguments of a call are.
LEMMA CallsTyped ==
    \A k \in Calls :
       /\ k.kind \in {"newOrder"} \cup AboutOrder
       /\ k.account \in Accounts
       /\ k.names \in SUBSET Names
       /\ k.kind = "newOrder" => k.names \in OrderNames
       /\ k.kind \in AboutOrder => k.order \in Requests
       /\ k.kind = "challenge" => k.name \in Names /\ k.type \in Types
  BY AcmeNamesAssumption DEF Calls, AboutOrder

\* Where a request is tells what it asks.
ControlOK ==
    \A r \in Requests :
       /\ pc[r] # "idle" => call[r] \in Calls
       /\ pc[r] \in OrderSteps => call[r].kind = "newOrder"
       /\ pc[r] = "challengeInsert" => cur[r] \in Names
       /\ pc[r] \in ChallengeSteps \cup ProofSteps \cup DenialSteps => call[r].kind = "challenge"
       /\ pc[r] \in FinalizeSteps => call[r].kind = "finalize"

TypeInv == TypeOK /\ ControlOK

LEMMA NewRowTyped == NewRow \in OrderRows
  BY DEF NewRow, OrderRows

LEMMA InitTyped == Init => TypeInv
  <1> SUFFICES ASSUME Init PROVE TypeInv
    OBVIOUS
  <1>1. TablesOK
    BY DEF Init, TablesOK, AuthzStatuses
  <1>2. RequestsOK /\ MemoryOK
    BY NewRowTyped DEF Init, RequestsOK, MemoryOK, Steps, Resting
  <1>3. ControlOK
    BY DEF Init, ControlOK, OrderSteps, ChallengeSteps, ProofSteps, DenialSteps, FinalizeSteps
  <1> QED
    BY <1>1, <1>2, <1>3 DEF TypeInv, TypeOK, Init

\* A request that answers leaves well-typed memory and no step to take.
LEMMA StopTyped ==
    ASSUME TypeInv, NEW r \in Requests, NEW a \in {"ok", "error", "badNonce"}, Stop(r, a),
           UNCHANGED <<call, jws>>, pc[r] # "idle"
    PROVE  RequestsOK' /\ MemoryOK' /\ ControlOK'
  <1>1. RequestsOK' /\ MemoryOK'
    BY NewRowTyped DEF Stop, Goto, TypeInv, TypeOK, RequestsOK, MemoryOK, Steps, Resting
  <1>2. ControlOK'
    BY DEF Stop, Goto, TypeInv, TypeOK, RequestsOK, MemoryOK, ControlOK, OrderSteps,
           ChallengeSteps, ProofSteps, DenialSteps, FinalizeSteps
  <1> QED
    BY <1>1, <1>2

\* A handler that goes on within its phase, and keeps its call, stays in control.
LEMMA GotoTyped ==
    ASSUME TypeInv, NEW r \in Requests, NEW l, Goto(r, l), UNCHANGED <<call, jws, result>>,
           \/ pc[r] \in OrderSteps /\ l \in OrderSteps /\ (l = "challengeInsert" => cur'[r] \in Names)
           \/ /\ pc[r] \in ChallengeSteps \cup ProofSteps \cup DenialSteps
              /\ l \in ChallengeSteps \cup ProofSteps \cup DenialSteps
           \/ pc[r] \in FinalizeSteps /\ l \in FinalizeSteps,
           \A q \in Requests \ {r} : cur'[q] = cur[q]
    PROVE  RequestsOK' /\ ControlOK'
  <1>1. RequestsOK'
    BY DEF Goto, TypeInv, TypeOK, RequestsOK, Steps
  <1>2. ControlOK'
    BY DEF Goto, TypeInv, TypeOK, RequestsOK, ControlOK, OrderSteps, ChallengeSteps,
           ProofSteps, DenialSteps, FinalizeSteps
  <1> QED
    BY <1>1, <1>2

-----------------------------------------------------------------------------
(* Type correctness and control: every action preserves TypeInv            *)

LEMMA ReceiveTyped ==
    ASSUME TypeInv, NEW r \in Requests, NEW q \in Requests, NEW k \in Calls, Receive(r, q, k)
    PROVE  TypeInv'
  <1> USE DEF TypeInv, TypeOK
  <1>k. k.kind \in {"newOrder"} \cup AboutOrder /\ k.names \in SUBSET Names
    BY CallsTyped
  <1>c. call' = [call EXCEPT ![r] = k] /\ call'[r] = k /\ r \in Requests
    BY DEF Receive, RequestsOK
  <1>1. TablesOK' /\ failures' \in Nat
    BY DEF Receive, TablesOK, tables, SpendNonce
  <1>2. CASE q \in nonces
    <2>1. /\ pc' = [pc EXCEPT ![r] = FirstStep[k.kind]]
          /\ todo' = [todo EXCEPT ![r] = IF k.kind = "newOrder" THEN k.names ELSE {}]
          /\ UNCHANGED <<result, cur, row, attempts>>
          /\ jws' = [jws EXCEPT ![r] = q]
      BY <1>2 DEF Receive, Goto
    <2>2. /\ k.kind = "newOrder" => FirstStep[k.kind] = "orderInsert"
          /\ k.kind = "challenge" => FirstStep[k.kind] = "challengeRead"
          /\ k.kind = "finalize" => FirstStep[k.kind] = "finalizeRead"
      BY DEF FirstStep
    <2>3. RequestsOK'
      BY <1>c, <1>k, <2>1, <2>2 DEF RequestsOK, Steps, OrderSteps, ChallengeSteps, FinalizeSteps,
                                    AboutOrder
    <2>4. MemoryOK'
      BY <1>k, <2>1 DEF MemoryOK
    <2>5. ControlOK'
      BY <1>c, <1>k, <2>1, <2>2
         DEF RequestsOK, ControlOK, AboutOrder, OrderSteps, ChallengeSteps, ProofSteps,
             DenialSteps, FinalizeSteps
    <2> QED
      BY <1>1, <2>3, <2>4, <2>5
  <1>3. CASE q \notin nonces
    <2>1. Stop(r, "badNonce") /\ jws' = [jws EXCEPT ![r] = q]
      BY <1>3 DEF Receive
    <2>2. RequestsOK' /\ MemoryOK'
      BY <1>c, <2>1, NewRowTyped DEF Stop, Goto, RequestsOK, MemoryOK, Steps, Resting
    <2>3. ControlOK'
      BY <1>c, <2>1 DEF Stop, Goto, RequestsOK, ControlOK, OrderSteps, ChallengeSteps, ProofSteps,
                       DenialSteps, FinalizeSteps
    <2> QED
      BY <1>1, <2>2, <2>3
  <1> QED
    BY <1>2, <1>3

LEMMA NewOrderTyped ==
    ASSUME TypeInv, NEW r \in Requests, OrderInsert(r) \/ AuthzInsert(r) \/ ChallengeInsert(r)
    PROVE  TypeInv'
  <1> USE DEF TypeInv, TypeOK
  <1>1. CASE OrderInsert(r)
    <2>1. TablesOK' /\ failures' \in Nat
      BY <1>1, NewRowTyped DEF OrderInsert, TablesOK
    <2>2. MemoryOK' /\ RequestsOK' /\ ControlOK'
      BY <1>1, GotoTyped DEF OrderInsert, OrderSteps, memory, MemoryOK
    <2> QED
      BY <2>1, <2>2
  <1>2. CASE AuthzInsert(r)
    <2>1. PICK n \in todo[r] : /\ authzs' = [authzs EXCEPT ![<<r, n>>] = "pending"]
                               /\ todo' = [todo EXCEPT ![r] = @ \ {n}]
                               /\ cur' = [cur EXCEPT ![r] = n]
      BY <1>2 DEF AuthzInsert
    <2>2. n \in Names
      BY DEF MemoryOK
    <2>3. TablesOK' /\ failures' \in Nat
      BY <1>2, <2>1 DEF AuthzInsert, TablesOK, AuthzStatuses
    <2>4. MemoryOK'
      BY <1>2, <2>1, <2>2 DEF AuthzInsert, MemoryOK
    <2>5. RequestsOK' /\ ControlOK'
      BY <1>2, <2>1, <2>2, GotoTyped DEF AuthzInsert, OrderSteps, MemoryOK
    <2> QED
      BY <2>3, <2>4, <2>5
  <1>3. CASE ChallengeInsert(r)
    <2>1. CASE Offered(cur[r]) = {}
      <3>1. Stop(r, "error") /\ UNCHANGED <<call, jws>> /\ pc[r] # "idle"
        BY <1>3, <2>1 DEF ChallengeInsert
      <3>2. TablesOK' /\ failures' \in Nat
        BY <1>3, <2>1 DEF ChallengeInsert, TablesOK
      <3> QED
        BY <3>1, <3>2, StopTyped
    <2>2. CASE Offered(cur[r]) # {}
      <3>1. PICK t \in Types :
              /\ challenges' = [challenges EXCEPT ![<<r, cur[r], t>>] =
                                  [status |-> "pending", attempts |-> 0]]
              /\ \/ Stop(r, "ok")
                 \/ \E l \in {"authzInsert", "challengeInsert"} :
                       Goto(r, l) /\ UNCHANGED <<result, memory>>
        BY <1>3, <2>2 DEF ChallengeInsert, Offered, Types
      <3>2. TablesOK' /\ failures' \in Nat
        BY <1>3, <3>1 DEF ChallengeInsert, TablesOK, ChallengeRows
      <3>3. CASE Stop(r, "ok")
        BY <1>3, <3>2, <3>3, StopTyped DEF ChallengeInsert
      <3>4. ASSUME NEW l \in {"authzInsert", "challengeInsert"}, Goto(r, l),
                   UNCHANGED <<result, memory>>
            PROVE  MemoryOK' /\ RequestsOK' /\ ControlOK'
        <4>1. cur[r] \in Names
          BY <1>3 DEF ChallengeInsert, ControlOK
        <4> QED
          BY <1>3, <3>4, <4>1, GotoTyped DEF ChallengeInsert, OrderSteps, memory, MemoryOK
      <3> QED
        BY <3>1, <3>2, <3>3, <3>4
    <2> QED
      BY <2>1, <2>2
  <1> QED
    BY <1>1, <1>2, <1>3

\* The rows a request about an order looks at exist in the tables' domains.
LEMMA TargetTyped ==
    ASSUME TypeInv, NEW r \in Requests, pc[r] \notin Resting \cup OrderSteps
    PROVE  /\ Order(r) \in Requests
           /\ call[r].account \in Accounts
           /\ call[r].kind = "challenge" =>
                 call[r].name \in Names /\ Authz(r) \in AuthzIds /\ Challenge(r) \in ChallengeIds
  <1>1. pc[r] \in Steps
    BY DEF TypeInv, TypeOK, RequestsOK
  <1>2. call[r] \in Calls /\ call[r].kind \in AboutOrder
    BY <1>1 DEF TypeInv, ControlOK, Steps, Resting, AboutOrder
  <1> QED
    BY <1>2, CallsTyped DEF Order, Authz, Challenge, AuthzIds, ChallengeIds, AboutOrder

LEMMA ValidateTyped ==
    ASSUME TypeInv, NEW r \in Requests, ChallengeRead(r) \/ MarkProcessing(r) \/ Settle(r)
    PROVE  TypeInv'
  <1> USE DEF TypeInv, TypeOK
  <1>k. /\ pc[r] \in ChallengeSteps /\ call[r].kind = "challenge"
        /\ Challenge(r) \in ChallengeIds /\ call[r].account \in Accounts /\ call[r].name \in Names
    BY TargetTyped DEF ChallengeRead, MarkProcessing, Settle, ControlOK, ChallengeSteps,
                       Resting, OrderSteps
  <1>1. CASE ChallengeRead(r)
    <2>1. TablesOK' /\ failures' \in Nat
      BY <1>1 DEF ChallengeRead, TablesOK, tables
    <2>2. CASE Stop(r, "ok") \/ Stop(r, "error")
      BY <1>1, <2>1, <2>2, StopTyped DEF ChallengeRead
    <2>3. CASE /\ challenges[Challenge(r)] # None
               /\ attempts' = [attempts EXCEPT ![r] = challenges[Challenge(r)].attempts + 1]
               /\ Goto(r, "markProcessing") /\ UNCHANGED <<result, todo, cur, row>>
      <3>1. challenges[Challenge(r)] \in ChallengeRows
        BY <1>k, <2>3 DEF TablesOK
      <3>2. MemoryOK'
        BY <2>3, <3>1 DEF MemoryOK, ChallengeRows
      <3>3. RequestsOK' /\ ControlOK'
        BY <1>1, <1>k, <2>3, GotoTyped DEF ChallengeRead, ChallengeSteps
      <3> QED
        BY <2>1, <3>2, <3>3
    <2> QED
      BY <1>1, <2>2, <2>3 DEF ChallengeRead
  <1>2. CASE MarkProcessing(r)
    <2>1. TablesOK' /\ failures' \in Nat
      BY <1>2, <1>k DEF MarkProcessing, TablesOK, Marked, ChallengeRows, MemoryOK
    <2>2. MemoryOK' /\ RequestsOK' /\ ControlOK'
      BY <1>2, <1>k, GotoTyped DEF MarkProcessing, ChallengeSteps, memory, MemoryOK
    <2> QED
      BY <2>1, <2>2
  <1>3. CASE Settle(r)
    <2>1. PICK proved \in BOOLEAN :
            /\ challenges' = [challenges EXCEPT ![Challenge(r)] =
                               [status |-> IF proved THEN "valid" ELSE "invalid",
                                attempts |-> attempts[r]]]
            /\ proven' = IF proved THEN proven \cup {<<call[r].account, call[r].name>>}
                                   ELSE proven
            /\ Goto(r, IF proved THEN "authzValid" ELSE "challengeList")
      BY <1>3 DEF Settle
    <2>2. TablesOK' /\ failures' \in Nat
      BY <1>3, <1>k, <2>1 DEF Settle, TablesOK, ChallengeRows, MemoryOK
    <2>3. MemoryOK' /\ RequestsOK' /\ ControlOK'
      BY <1>3, <1>k, <2>1, GotoTyped
         DEF Settle, ChallengeSteps, ProofSteps, DenialSteps, memory, MemoryOK
    <2> QED
      BY <2>2, <2>3
  <1> QED
    BY <1>1, <1>2, <1>3

\* A save of an order row that was read before writes a well-typed row.
LEMMA SavedTyped ==
    ASSUME TypeInv, NEW r \in Requests, NEW s \in {"ready", "valid", "invalid"},
           NEW c \in {row[r].cert, r}, NEW o \in Requests,
           orders' = [orders EXCEPT ![o] = [status |-> s, cert |-> c]],
           UNCHANGED <<authzs, challenges, certs, nonces, expired, proven, rushed>>
    PROVE  TablesOK'
  <1>1. row[r].cert \in Requests \cup {None}
    BY DEF TypeInv, TypeOK, MemoryOK, OrderRows
  <1> QED
    BY <1>1 DEF TypeInv, TypeOK, TablesOK, OrderRows

LEMMA SettledTyped ==
    ASSUME TypeInv, NEW r \in Requests,
           \/ AuthzValid(r) \/ OrderRead(r) \/ AuthzList(r) \/ OrderReady(r)
           \/ ChallengeList(r) \/ AuthzInvalid(r) \/ OrderFailRead(r) \/ OrderInvalid(r)
    PROVE  TypeInv'
  <1> USE DEF TypeInv, TypeOK
  <1>k. /\ pc[r] \in ProofSteps \cup DenialSteps /\ call[r].kind = "challenge"
        /\ Order(r) \in Requests /\ Authz(r) \in AuthzIds
    BY TargetTyped DEF AuthzValid, OrderRead, AuthzList, OrderReady, ChallengeList, AuthzInvalid,
                       OrderFailRead, OrderInvalid, ControlOK, ProofSteps, DenialSteps, Resting,
                       OrderSteps
  <1>1. CASE AuthzValid(r) \/ AuthzInvalid(r)
    <2>1. TablesOK' /\ failures' \in Nat
      BY <1>1, <1>k DEF AuthzValid, AuthzInvalid, TablesOK, AuthzStatuses
    <2>2. MemoryOK' /\ RequestsOK' /\ ControlOK'
      BY <1>1, <1>k, GotoTyped
         DEF AuthzValid, AuthzInvalid, ProofSteps, DenialSteps, memory, MemoryOK
    <2> QED
      BY <2>1, <2>2
  <1>2. CASE OrderRead(r) \/ OrderFailRead(r)
    <2>1. TablesOK' /\ failures' \in Nat
      BY <1>2 DEF OrderRead, OrderFailRead, TablesOK, tables
    <2>2. CASE Stop(r, "ok")
      BY <1>2, <2>1, <2>2, StopTyped DEF OrderRead, OrderFailRead
    <2>3. CASE orders[Order(r)] # None /\ ~Stop(r, "ok")
      <3>1. orders[Order(r)] \in OrderRows
        BY <1>k, <2>3 DEF TablesOK
      <3>2. MemoryOK'
        BY <1>2, <2>3, <3>1 DEF OrderRead, OrderFailRead, MemoryOK
      <3>3. RequestsOK' /\ ControlOK'
        BY <1>2, <1>k, <2>3, GotoTyped DEF OrderRead, OrderFailRead, ProofSteps, DenialSteps
      <3> QED
        BY <2>1, <3>2, <3>3
    <2> QED
      BY <1>2, <2>2, <2>3 DEF OrderRead, OrderFailRead
  <1>3. CASE AuthzList(r) \/ ChallengeList(r)
    <2>1. TablesOK' /\ failures' \in Nat
      BY <1>3, <1>k DEF AuthzList, ChallengeList, TablesOK, tables
    <2>2. CASE Stop(r, "ok")
      BY <1>3, <2>1, <2>2, StopTyped DEF AuthzList, ChallengeList
    <2>3. CASE ~Stop(r, "ok")
      BY <1>3, <1>k, <2>1, <2>3, GotoTyped
         DEF AuthzList, ChallengeList, ProofSteps, DenialSteps, memory, MemoryOK
    <2> QED
      BY <2>2, <2>3
  <1>4. CASE OrderReady(r) \/ OrderInvalid(r)
    <2>1. TablesOK'
      BY <1>4, <1>k, SavedTyped DEF OrderReady, OrderInvalid
    <2>2. failures' \in Nat
      BY <1>4 DEF OrderReady, OrderInvalid
    <2> QED
      BY <1>4, <2>1, <2>2, StopTyped DEF OrderReady, OrderInvalid
  <1> QED
    BY <1>1, <1>2, <1>3, <1>4

LEMMA FinalizeTyped ==
    ASSUME TypeInv, NEW r \in Requests, FinalizeRead(r) \/ Sign(r) \/ Attach(r) \/ OrderReject(r)
    PROVE  TypeInv'
  <1> USE DEF TypeInv, TypeOK
  <1>k. /\ pc[r] \in FinalizeSteps /\ call[r] \in Calls
        /\ Order(r) \in Requests /\ call[r].account \in Accounts
    BY TargetTyped DEF FinalizeRead, Sign, Attach, OrderReject, ControlOK, FinalizeSteps, Resting,
                       OrderSteps
  <1>1. CASE FinalizeRead(r)
    <2>1. TablesOK' /\ failures' \in Nat
      BY <1>1 DEF FinalizeRead, TablesOK, tables
    <2>2. CASE Stop(r, "ok") \/ Stop(r, "error")
      BY <1>1, <2>1, <2>2, StopTyped DEF FinalizeRead
    <2>3. CASE \E l \in {"sign", "orderReject"} :
                 /\ orders[Order(r)] # None
                 /\ row' = [row EXCEPT ![r] = orders[Order(r)]]
                 /\ Goto(r, l) /\ UNCHANGED <<result, todo, cur, attempts>>
      <3>1. orders[Order(r)] \in OrderRows
        BY <1>k, <2>3 DEF TablesOK
      <3>2. MemoryOK'
        BY <2>3, <3>1 DEF MemoryOK
      <3>3. RequestsOK' /\ ControlOK'
        BY <1>1, <1>k, <2>3, GotoTyped DEF FinalizeRead, FinalizeSteps
      <3> QED
        BY <2>1, <3>2, <3>3
    <2>4. AfterFinalizeRead(r) \in {"ok", "error", "sign", "orderReject"}
      BY DEF AfterFinalizeRead
    <2> QED
      BY <1>1, <2>2, <2>3, <2>4 DEF FinalizeRead
  <1>2. CASE Sign(r)
    <2>1. TablesOK' /\ failures' \in Nat
      BY <1>2, <1>k, CallsTyped DEF Sign, TablesOK, Certificates
    <2>2. MemoryOK' /\ RequestsOK' /\ ControlOK'
      BY <1>2, <1>k, GotoTyped DEF Sign, FinalizeSteps, memory, MemoryOK
    <2> QED
      BY <2>1, <2>2
  <1>3. CASE Attach(r) \/ OrderReject(r)
    <2>1. TablesOK'
      BY <1>3, <1>k, SavedTyped DEF Attach, Attached, OrderReject
    <2>2. failures' \in Nat
      BY <1>3 DEF Attach, OrderReject
    <2> QED
      BY <1>3, <2>1, <2>2, StopTyped DEF Attach, OrderReject
  <1> QED
    BY <1>1, <1>2, <1>3

LEMMA FailTyped ==
    ASSUME TypeInv, NEW r \in Requests, Fail(r)
    PROVE  TypeInv'
  <1> USE DEF TypeInv, TypeOK
  <1>1. TablesOK' /\ failures' \in Nat
    BY DEF Fail, TablesOK, tables
  <1>2. CASE Stop(r, "ok") \/ Stop(r, "error")
    BY <1>1, <1>2, StopTyped DEF Fail, Resting
  <1>3. CASE /\ \/ pc[r] = "markProcessing" /\ Goto(r, "settle")
                \/ pc[r] = "settle" /\ Goto(r, "challengeList")
                \/ pc[r] = "sign" /\ Goto(r, "orderReject")
             /\ UNCHANGED <<result, memory>>
    BY <1>1, <1>3, GotoTyped
       DEF Fail, ChallengeSteps, ProofSteps, DenialSteps, FinalizeSteps, memory, MemoryOK
  <1> QED
    BY <1>2, <1>3 DEF Fail

LEMMA TimeTyped ==
    ASSUME TypeInv, Prune \/ \E o \in Requests : Expire(o)
    PROVE  TypeInv'
  <1> USE DEF TypeInv, TypeOK
  <1>1. TablesOK' /\ failures' \in Nat
    BY DEF Prune, Expire, TablesOK, tables, AuthzStatuses, Absent
  <1>2. RequestsOK' /\ MemoryOK' /\ ControlOK'
    BY DEF Prune, Expire, RequestsOK, MemoryOK, ControlOK, memory
  <1> QED
    BY <1>1, <1>2

LEMMA TypeStep == TypeInv /\ [Next]_vars => TypeInv'
  <1> SUFFICES ASSUME TypeInv, [Next]_vars PROVE TypeInv'
    OBVIOUS
  <1>1. CASE UNCHANGED vars
    BY <1>1 DEF vars, tables, memory, TypeInv, TypeOK, TablesOK, RequestsOK, MemoryOK, ControlOK
  <1>2. ASSUME NEW r \in Requests, RequestStep(r) PROVE TypeInv'
    BY <1>2, NewOrderTyped, ValidateTyped, SettledTyped, FinalizeTyped DEF RequestStep
  <1> QED
    BY <1>1, <1>2, ReceiveTyped, FailTyped, TimeTyped DEF Next

LEMMA TypeAlways == Spec => []TypeInv
  BY InitTyped, TypeStep, PTL DEF Spec

\* Whatever the number of requests, accounts and names, the tables and the
\* memory of every handler keep their types.
THEOREM OrderTypeCorrect == Spec => []TypeOK
  <1>1. TypeInv => TypeOK
    BY DEF TypeInv
  <1> QED
    BY TypeAlways, <1>1, PTL
=============================================================================
