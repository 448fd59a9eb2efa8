-------------------------- MODULE AcmeOrderSafety --------------------------
(* The safety theorems about AcmeOrder, on top of its type invariant.      *)
EXTENDS AcmeOrderProofs

Handling == Steps \ Resting

(* What a step leaves alone: the frame of every argument below.            *)

\* A step of a handler is a step of that handler only.
LEMMA HandlerFrame ==
    ASSUME TypeInv, NEW r \in Requests, RequestStep(r) \/ Fail(r)
    PROVE  /\ pc[r] \in Handling
           /\ \E l \in Steps \ {"idle"} : Goto(r, l)
           /\ \/ Stop(r, "ok") \/ Stop(r, "error")
              \/ UNCHANGED result
           /\ \A q \in Requests \ {r} : pc'[q] = pc[q] /\ result'[q] = result[q]
           /\ UNCHANGED <<call, jws, nonces, expired>>
  <1> USE DEF Handling, Resting
  <1>1. CASE OrderInsert(r) \/ AuthzInsert(r) \/ ChallengeInsert(r)
    <2>1. pc[r] \in OrderSteps
      BY <1>1 DEF OrderInsert, AuthzInsert, ChallengeInsert, OrderSteps
    <2>2. /\ \E l \in OrderSteps \cup {"done"} : Goto(r, l)
          /\ \/ Stop(r, "ok") \/ Stop(r, "error") \/ UNCHANGED result
          /\ UNCHANGED <<call, jws, nonces, expired>>
      BY <1>1 DEF OrderInsert, AuthzInsert, ChallengeInsert, OrderSteps, Stop
    <2> QED
      BY <2>1, <2>2 DEF Goto, Stop, Steps, OrderSteps, TypeInv, TypeOK, RequestsOK
  <1>2. CASE \/ ChallengeRead(r) \/ MarkProcessing(r) \/ Settle(r)
    <2>1. pc[r] \in ChallengeSteps
      BY <1>2 DEF ChallengeRead, MarkProcessing, Settle, ChallengeSteps
    <2>2. /\ \E l \in ChallengeSteps \cup {"done", "authzValid", "challengeList"} : Goto(r, l)
          /\ \/ Stop(r, "ok") \/ Stop(r, "error") \/ UNCHANGED result
          /\ UNCHANGED <<call, jws, nonces, expired>>
      BY <1>2 DEF ChallengeRead, MarkProcessing, Settle, ChallengeSteps, Stop
    <2> QED
      BY <2>1, <2>2 DEF Goto, Stop, Steps, ChallengeSteps, ProofSteps, DenialSteps, TypeInv, TypeOK, RequestsOK
  <1>3. CASE \/ AuthzValid(r) \/ OrderRead(r) \/ AuthzList(r) \/ OrderReady(r)
             \/ ChallengeList(r) \/ AuthzInvalid(r) \/ OrderFailRead(r) \/ OrderInvalid(r)
    <2>1. pc[r] \in ProofSteps \cup DenialSteps
      BY <1>3 DEF AuthzValid, OrderRead, AuthzList, OrderReady, ChallengeList, AuthzInvalid,
                  OrderFailRead, OrderInvalid, ProofSteps, DenialSteps
    <2>2. /\ \E l \in ProofSteps \cup DenialSteps \cup {"done"} : Goto(r, l)
          /\ \/ Stop(r, "ok") \/ Stop(r, "error") \/ UNCHANGED result
          /\ UNCHANGED <<call, jws, nonces, expired>>
      BY <1>3 DEF AuthzValid, OrderRead, AuthzList, OrderReady, ChallengeList, AuthzInvalid,
                  OrderFailRead, OrderInvalid, ProofSteps, DenialSteps, Stop
    <2> QED
      BY <2>1, <2>2 DEF Goto, Stop, Steps, ProofSteps, DenialSteps, TypeInv, TypeOK, RequestsOK
  <1>4. CASE FinalizeRead(r) \/ Sign(r) \/ Attach(r) \/ OrderReject(r)
    <2>1. pc[r] \in FinalizeSteps
      BY <1>4 DEF FinalizeRead, Sign, Attach, OrderReject, FinalizeSteps
    <2>2. /\ \E l \in FinalizeSteps \cup {"done"} : Goto(r, l)
          /\ \/ Stop(r, "ok") \/ Stop(r, "error") \/ UNCHANGED result
          /\ UNCHANGED <<call, jws, nonces, expired>>
      BY <1>4 DEF FinalizeRead, AfterFinalizeRead, Sign, Attach, OrderReject, FinalizeSteps, Stop
    <2> QED
      BY <2>1, <2>2 DEF Goto, Stop, Steps, FinalizeSteps, TypeInv, TypeOK, RequestsOK
  <1>5. CASE Fail(r)
    <2>1. pc[r] \in Steps
      BY DEF TypeInv, TypeOK, RequestsOK
    <2>2. /\ pc[r] \notin Resting
          /\ \E l \in {"done", "settle", "challengeList", "orderReject"} : Goto(r, l)
          /\ \/ Stop(r, "ok") \/ Stop(r, "error") \/ UNCHANGED result
          /\ UNCHANGED <<call, jws, nonces, expired>>
      BY <1>5 DEF Fail, Stop
    <2> QED
      BY <2>1, <2>2 DEF Goto, Stop, Steps, ChallengeSteps, DenialSteps, FinalizeSteps, TypeInv,
                        TypeOK, RequestsOK
  <1> QED
    BY <1>1, <1>2, <1>3, <1>4, <1>5 DEF RequestStep

\* The clock and the prune job touch no request.
LEMMA TimeFrame ==
    ASSUME Prune \/ \E o \in Requests : Expire(o)
    PROVE  UNCHANGED <<nonces, pc, call, jws, result, memory, certs, proven, rushed>>
  BY DEF Prune, Expire, tables

\* What a request asked, and under which nonce, is settled when it arrives; it
\* answers once, when it is done.
RequestInv ==
    \A r \in Requests :
       /\ pc[r] = "idle" => jws[r] = None
       /\ pc[r] # "done" => result[r] = "none"

LEMMA RequestStands ==
    ASSUME TypeInv, RequestInv, [Next]_vars, NEW r \in Requests
    PROVE  /\ pc[r] # "idle" => pc'[r] # "idle" /\ call'[r] = call[r] /\ jws'[r] = jws[r]
           /\ pc[r] = "done" => pc'[r] = "done" /\ result'[r] = result[r]
           /\ result[r] # "none" => result'[r] = result[r]
  <1> USE DEF TypeInv, TypeOK, RequestsOK
  <1>1. CASE UNCHANGED vars
    BY <1>1 DEF vars
  <1>2. ASSUME NEW q \in Requests, NEW b \in Requests, NEW k \in Calls, Receive(q, b, k)
        PROVE  r # q => /\ pc'[r] = pc[r] /\ call'[r] = call[r] /\ jws'[r] = jws[r]
                        /\ result'[r] = result[r]
    BY <1>2 DEF Receive, Stop, Goto
  <1>3. ASSUME NEW q \in Requests, NEW b \in Requests, NEW k \in Calls, Receive(q, b, k)
        PROVE  pc[q] = "idle" /\ result[q] = "none"
    BY <1>3 DEF Receive, RequestInv
  <1>4. ASSUME NEW q \in Requests, RequestStep(q) \/ Fail(q)
        PROVE  /\ pc[q] \in Handling /\ pc'[q] # "idle" /\ UNCHANGED <<call, jws>>
               /\ r # q => pc'[r] = pc[r] /\ result'[r] = result[r]
    BY <1>4, HandlerFrame DEF Goto
  <1>5. ASSUME NEW q \in Requests, RequestStep(q) \/ Fail(q)
        PROVE  pc[q] \notin {"idle", "done"} /\ result[q] = "none"
    BY <1>4, <1>5 DEF Handling, Resting, RequestInv
  <1>6. CASE Prune \/ \E o \in Requests : Expire(o)
    BY <1>6, TimeFrame
  <1> QED
    BY <1>1, <1>2, <1>3, <1>4, <1>5, <1>6 DEF Next

LEMMA RequestInvStep == TypeInv /\ RequestInv /\ [Next]_vars => RequestInv'
  <1> SUFFICES ASSUME TypeInv, RequestInv, [Next]_vars, NEW r \in Requests
               PROVE  /\ pc'[r] = "idle" => jws'[r] = None
                      /\ pc'[r] # "done" => result'[r] = "none"
    BY DEF RequestInv
  <1> USE DEF TypeInv, TypeOK, RequestsOK, RequestInv
  <1>1. CASE UNCHANGED vars
    BY <1>1 DEF vars
  <1>2. ASSUME NEW q \in Requests, NEW b \in Requests, NEW k \in Calls, Receive(q, b, k)
        PROVE  /\ pc'[r] = "idle" => jws'[r] = None
               /\ pc'[r] # "done" => result'[r] = "none"
    <2>1. CASE r = q
      <3>1. k.kind \in {"newOrder"} \cup AboutOrder
        BY CallsTyped
      <3>2. FirstStep[k.kind] # "idle"
        BY <3>1 DEF FirstStep, AboutOrder
      <3> QED
        BY <1>2, <2>1, <3>2 DEF Receive, Stop, Goto
    <2>2. CASE r # q
      BY <1>2, <2>2 DEF Receive, Stop, Goto
    <2> QED
      BY <2>1, <2>2
  <1>3. ASSUME NEW q \in Requests, RequestStep(q) \/ Fail(q)
        PROVE  /\ pc'[r] = "idle" => jws'[r] = None
               /\ pc'[r] # "done" => result'[r] = "none"
    <2>1. CASE r = q
      BY <1>3, <2>1, HandlerFrame DEF Goto, Stop, Handling, Resting
    <2>2. CASE r # q
      BY <1>3, <2>2, HandlerFrame
    <2> QED
      BY <2>1, <2>2
  <1>4. CASE Prune \/ \E o \in Requests : Expire(o)
    BY <1>4, TimeFrame
  <1> QED
    BY <1>1, <1>2, <1>3, <1>4 DEF Next

LEMMA RequestAlways == Spec => [](TypeInv /\ RequestInv)
  <1>1. Init => RequestInv
    BY DEF Init, RequestInv
  <1> QED
    BY TypeAlways, RequestInvStep, <1>1, PTL DEF Spec

-----------------------------------------------------------------------------
(* A signed request is acted on once.                                      *)

\* A nonce that was accepted is spent.
NonceInv ==
    /\ \A r \in Requests : jws[r] # None /\ result[r] # "badNonce" => jws[r] \notin nonces
    /\ NonceActsOnce

LEMMA NonceStep == TypeInv /\ RequestInv /\ NonceInv /\ [Next]_vars => NonceInv'
  <1> SUFFICES ASSUME TypeInv, RequestInv, NonceInv, [Next]_vars PROVE NonceInv'
    OBVIOUS
  <1> USE DEF TypeInv, TypeOK, RequestsOK, NonceInv, NonceActsOnce
  <1>1. CASE UNCHANGED vars
    BY <1>1 DEF vars
  <1>2. ASSUME NEW r \in Requests, NEW q \in Requests, NEW k \in Calls, Receive(r, q, k)
        PROVE  NonceInv'
    <2>1. /\ pc[r] = "idle" /\ result[r] = "none" /\ jws[r] = None
          /\ jws' = [jws EXCEPT ![r] = q] /\ q # None
      BY <1>2, AcmeNoneAssumption DEF Receive, RequestInv
    <2>2. CASE q \in nonces
      <3>1. nonces' = nonces \ {q} /\ UNCHANGED result
        BY <1>2, <2>2 DEF Receive, SpendNonce
      <3>2. \A x \in Requests : jws[x] = q => result[x] = "badNonce"
        BY <2>1, <2>2
      <3> QED
        BY <2>1, <3>1, <3>2
    <2>3. CASE q \notin nonces
      <3>1. result' = [result EXCEPT ![r] = "badNonce"] /\ UNCHANGED nonces
        BY <1>2, <2>3 DEF Receive, Stop
      <3> QED
        BY <2>1, <3>1
    <2> QED
      BY <2>2, <2>3
  <1>3. ASSUME NEW r \in Requests, RequestStep(r) \/ Fail(r)
        PROVE  NonceInv'
    <2>1. UNCHANGED <<nonces, jws>>
      BY <1>3, HandlerFrame
    <2>2. \A q \in Requests : result[q] = "badNonce" <=> result'[q] = "badNonce"
      <3>1. result[r] = "none"
        BY <1>3, HandlerFrame DEF RequestInv, Handling, Resting
      <3>2. result'[r] \in {"none", "ok", "error"}
        BY <1>3, <3>1, HandlerFrame DEF Stop
      <3> QED
        BY <1>3, <3>1, <3>2, HandlerFrame
    <2> QED
      BY <2>1, <2>2
  <1>4. CASE Prune \/ \E o \in Requests : Expire(o)
    BY <1>4, TimeFrame
  <1> QED
    BY <1>1, <1>2, <1>3, <1>4 DEF Next

\* Whatever is delivered again, and whatever handlers race and fail, the server
\* acts on a signed request at most once: deleting the nonce is the test.
THEOREM NonceOnce == Spec => []NonceActsOnce
  <1>1. Init => NonceInv
    BY DEF Init, NonceInv, NonceActsOnce
  <1>2. NonceInv => NonceActsOnce
    BY DEF NonceInv
  <1> QED
    BY RequestAlways, NonceStep, <1>1, <1>2, PTL DEF Spec

-----------------------------------------------------------------------------
(* Whose order a request works on.                                         *)

\* A row of the orders table, and every request about an order, go back to the
\* call that opened it.
Opened(o) == call[o].kind = "newOrder" /\ pc[o] # "idle"

OwnershipInv ==
    /\ \A o \in Requests : orders[o] # None => Opened(o)
    /\ \A r \in Requests : pc[r] # "idle" /\ call[r].kind \in AboutOrder =>
          /\ Opened(Order(r))
          /\ call[r].kind = "challenge" => call[r].name \in call[Order(r)].names
    /\ \A r \in Requests :
          pc[r] \in (ChallengeSteps \ {"challengeRead"}) \cup ProofSteps => OwnerAsks(r)
    /\ \A r \in Requests : pc[r] \in {"sign", "attach"} => OwnerAsks(r) /\ Authorised(r)

\* An order row is written for the request itself, or for the order it is about.
LEMMA OrderWritten ==
    ASSUME TypeInv, Next, NEW o \in Requests, orders'[o] # orders[o]
    PROVE  \/ OrderInsert(o) /\ orders'[o] = NewRow
           \/ \E r \in Requests :
                 /\ o = Order(r) /\ pc[r] \in Handling \ OrderSteps
                 /\ \/ OrderReady(r) /\ orders'[o].status = "ready"
                    \/ (OrderInvalid(r) \/ OrderReject(r)) /\ orders'[o].status = "invalid"
                    \/ Attach(r) /\ orders'[o] = Attached(r)
           \/ Prune /\ orders'[o] = None
  <1> USE DEF TypeInv, TypeOK, TablesOK, tables
  <1>1. ASSUME NEW r \in Requests, OrderInsert(r) PROVE r = o /\ orders'[o] = NewRow
    BY <1>1 DEF OrderInsert
  <1>2. ASSUME NEW r \in Requests, OrderReady(r)
        PROVE  Order(r) = o /\ orders'[o].status = "ready"
    BY <1>2 DEF OrderReady
  <1>3. ASSUME NEW r \in Requests, OrderInvalid(r) \/ OrderReject(r)
        PROVE  Order(r) = o /\ orders'[o].status = "invalid"
    BY <1>3 DEF OrderInvalid, OrderReject
  <1>4. ASSUME NEW r \in Requests, Attach(r) PROVE Order(r) = o /\ orders'[o] = Attached(r)
    BY <1>4 DEF Attach
  <1>5. ASSUME NEW r \in Requests,
               OrderReady(r) \/ OrderInvalid(r) \/ OrderReject(r) \/ Attach(r)
        PROVE  pc[r] \in Handling \ OrderSteps
    BY <1>5 DEF OrderReady, OrderInvalid, OrderReject, Attach, Handling, Steps, Resting, OrderSteps,
                ProofSteps, DenialSteps, FinalizeSteps
  <1>6. CASE Prune
    BY <1>6 DEF Prune
  <1>7. \A r \in Requests : ~Fail(r) /\ ~Expire(r) /\ \A q \in Requests, k \in Calls : ~Receive(r, q, k)
    BY DEF Receive, Fail, Expire
  <1>8. ASSUME NEW r \in Requests, RequestStep(r)
        PROVE  OrderInsert(r) \/ OrderReady(r) \/ OrderInvalid(r) \/ OrderReject(r) \/ Attach(r)
    BY <1>8 DEF RequestStep, AuthzInsert, ChallengeInsert, ChallengeRead, MarkProcessing, Settle,
                AuthzValid, OrderRead, AuthzList, ChallengeList, AuthzInvalid, OrderFailRead,
                FinalizeRead, Sign
  <1>9. Prune \/ \E r \in Requests : RequestStep(r)
    BY <1>7 DEF Next
  <1> QED
    BY <1>1, <1>2, <1>3, <1>4, <1>5, <1>6, <1>8, <1>9

\* How a request comes to the steps that need its owner's right.
LEMMA RightsGained ==
    ASSUME TypeInv, NEW r \in Requests, RequestStep(r) \/ Fail(r)
    PROVE  /\ pc'[r] \in (ChallengeSteps \ {"challengeRead"}) \cup ProofSteps =>
                \/ pc[r] \in (ChallengeSteps \ {"challengeRead"}) \cup ProofSteps
                \/ OwnerAsks(r)
           /\ pc'[r] \in {"sign", "attach"} => pc[r] = "sign" \/ (OwnerAsks(r) /\ Authorised(r))
  <1> USE DEF TypeInv, TypeOK, RequestsOK, Goto, Stop, ChallengeSteps, ProofSteps
  <1>1. CASE OrderInsert(r) \/ AuthzInsert(r) \/ ChallengeInsert(r)
    BY <1>1 DEF OrderInsert, AuthzInsert, ChallengeInsert
  <1>2. CASE ChallengeRead(r) \/ MarkProcessing(r) \/ Settle(r)
    BY <1>2 DEF ChallengeRead, MarkProcessing, Settle
  <1>3. CASE AuthzValid(r) \/ OrderRead(r) \/ AuthzList(r) \/ OrderReady(r)
    BY <1>3 DEF AuthzValid, OrderRead, AuthzList, OrderReady
  <1>4. CASE ChallengeList(r) \/ AuthzInvalid(r) \/ OrderFailRead(r) \/ OrderInvalid(r)
    BY <1>4 DEF ChallengeList, AuthzInvalid, OrderFailRead, OrderInvalid
  <1>5. CASE FinalizeRead(r)
    <2>1. AfterFinalizeRead(r) = "sign" => Authorised(r)
      BY DEF AfterFinalizeRead
    <2>2. AfterFinalizeRead(r) \in {"ok", "error", "sign", "orderReject"}
      BY DEF AfterFinalizeRead
    <2> QED
      BY <1>5, <2>1, <2>2 DEF FinalizeRead
  <1>6. CASE Sign(r) \/ Attach(r) \/ OrderReject(r)
    BY <1>6 DEF Sign, Attach, OrderReject
  <1>7. CASE Fail(r)
    BY <1>7 DEF Fail
  <1> QED
    BY <1>1, <1>2, <1>3, <1>4, <1>5, <1>6, <1>7 DEF RequestStep

\* A request that opens an order does nothing else.
LEMMA OrderStepsStay ==
    ASSUME TypeInv, NEW r \in Requests, RequestStep(r) \/ Fail(r), pc[r] \in OrderSteps
    PROVE  pc'[r] \in OrderSteps \cup {"done"}
  <1> USE DEF TypeInv, TypeOK, RequestsOK, Goto, Stop, OrderSteps
  <1>1. CASE Fail(r)
    BY <1>1 DEF Fail
  <1>2. CASE OrderInsert(r) \/ AuthzInsert(r) \/ ChallengeInsert(r)
    BY <1>2 DEF OrderInsert, AuthzInsert, ChallengeInsert
  <1> QED
    BY <1>1, <1>2 DEF RequestStep, ChallengeRead, MarkProcessing, Settle, AuthzValid, OrderRead,
                      AuthzList, OrderReady, ChallengeList, AuthzInvalid, OrderFailRead,
                      OrderInvalid, FinalizeRead, Sign, Attach, OrderReject

LEMMA OwnershipStep ==
    TypeInv /\ RequestInv /\ OwnershipInv /\ [Next]_vars => OwnershipInv'
  <1> SUFFICES ASSUME TypeInv, RequestInv, OwnershipInv, [Next]_vars PROVE OwnershipInv'
    OBVIOUS
  <1> USE DEF TypeInv, TypeOK, RequestsOK
  <1>o. ASSUME NEW o \in Requests, Opened(o)
        PROVE  Opened(o)' /\ call'[o] = call[o] /\ (result[o] = "ok" => result'[o] = "ok")
    BY <1>o, RequestStands DEF Opened
  <1>t. ASSUME NEW r \in Requests, pc[r] \in Handling \ OrderSteps
        PROVE  call[r].kind \in AboutOrder /\ Order(r) \in Requests /\ Opened(Order(r))
    <2>1. call[r].kind \in AboutOrder /\ call[r] \in Calls
      BY <1>t DEF Handling, Resting, Steps, ControlOK, AboutOrder
    <2> QED
      BY <1>t, <2>1, CallsTyped DEF OwnershipInv, Order, Handling, Resting, AboutOrder
  <1>1. ASSUME NEW o \in Requests, orders'[o] # None PROVE Opened(o)'
    <2>1. CASE orders'[o] = orders[o]
      BY <1>1, <1>o, <2>1 DEF OwnershipInv
    <2>2. CASE orders'[o] # orders[o]
      <3>1. Next
        BY <2>2 DEF vars, tables
      <3>2. CASE OrderInsert(o)
        BY <1>o, <3>2 DEF OrderInsert, Opened, ControlOK, OrderSteps
      <3>3. CASE \E r \in Requests : o = Order(r) /\ pc[r] \in Handling \ OrderSteps
        BY <1>o, <1>t, <3>3
      <3> QED
        BY <1>1, <2>2, <3>1, <3>2, <3>3, OrderWritten
    <2> QED
      BY <2>1, <2>2
  <1>2. ASSUME NEW r \in Requests, pc'[r] # "idle", call'[r].kind \in AboutOrder
        PROVE  /\ Opened(Order(r))'
               /\ call'[r].kind = "challenge" => call'[r].name \in (call[Order(r)].names)'
    <2>1. CASE pc[r] # "idle"
      <3>1. call'[r] = call[r] /\ call[r] \in Calls
        BY <2>1, RequestStands DEF ControlOK
      <3>2. Order(r) \in Requests /\ Order(r)' = Order(r)
        BY <1>2, <3>1, CallsTyped DEF Order
      <3> QED
        BY <1>2, <1>o, <2>1, <3>1, <3>2 DEF OwnershipInv
    <2>2. CASE pc[r] = "idle"
      <3>1. PICK q \in Requests, k \in Calls : Receive(r, q, k)
        <4>1. Next
          BY <1>2, <2>2 DEF vars
        <4>2. ~Prune /\ \A o \in Requests : ~Expire(o)
          BY <1>2, <2>2, TimeFrame
        <4>3. \A x \in Requests : ~RequestStep(x) /\ ~Fail(x)
          BY <1>2, <2>2, HandlerFrame DEF Handling, Resting
        <4> QED
          BY <1>2, <2>2, <4>1, <4>2, <4>3 DEF Next, Receive, Stop, Goto
      <3>2. /\ call'[r] = k /\ k.kind \in AboutOrder /\ k.order \in Requests
            /\ Order(r)' = k.order
        BY <1>2, <3>1, CallsTyped DEF Receive, Order
      <3>3. /\ Opened(k.order)
            /\ k.kind = "challenge" => k.name \in call[k.order].names
        <4>1. CASE q = r
          <5>1. Known(k.order) /\ (k.kind = "challenge" => k.name \in call[k.order].names)
            BY <3>1, <3>2, <4>1 DEF Receive, Sendable, AboutOrder
          <5> QED
            BY <3>2, <5>1 DEF Known, Opened, OwnershipInv, RequestInv
        <4>2. CASE q # r
          <5>1. jws[q] = q /\ k = call[q]
            BY <3>1, <4>2 DEF Receive
          <5>2. pc[q] # "idle"
            BY <5>1, AcmeNoneAssumption DEF RequestInv
          <5> QED
            BY <3>2, <5>1, <5>2 DEF OwnershipInv, Order
        <4> QED
          BY <4>1, <4>2
      <3> QED
        BY <1>o, <3>2, <3>3
    <2> QED
      BY <2>1, <2>2
  <1>3. ASSUME NEW r \in Requests, pc'[r] \in Handling
        PROVE  \/ /\ pc[r] \in Handling
                  /\ OwnerAsks(r) /\ pc[r] \notin OrderSteps => OwnerAsks(r)'
                  /\ Authorised(r) /\ pc[r] \notin OrderSteps => Authorised(r)'
                  /\ pc'[r] = pc[r] \/ RequestStep(r) \/ Fail(r)
               \/ pc'[r] \in {"orderInsert", "challengeRead", "finalizeRead"}
    <2>1. CASE pc[r] # "idle"
      <3>1. pc[r] # "done"
        BY <1>3, RequestStands DEF Handling, Resting
      <3>2. pc[r] \in Handling /\ call'[r] = call[r]
        BY <2>1, <3>1, RequestStands DEF Handling, Resting
      <3>3. pc[r] \notin OrderSteps => call'[Order(r)] = call[Order(r)]
        BY <1>o, <1>t, <3>2
      <3>4. /\ OwnerAsks(r) /\ pc[r] \notin OrderSteps => OwnerAsks(r)'
            /\ Authorised(r) /\ pc[r] \notin OrderSteps => Authorised(r)'
        BY <3>2, <3>3 DEF OwnerAsks, Authorised, Order
      <3>5. pc'[r] = pc[r] \/ RequestStep(r) \/ Fail(r)
        <4>1. CASE UNCHANGED vars
          BY <4>1 DEF vars
        <4>2. ASSUME NEW x \in Requests, NEW q \in Requests, NEW k \in Calls, Receive(x, q, k)
              PROVE  pc'[r] = pc[r]
          BY <2>1, <4>2 DEF Receive, Stop, Goto
        <4>3. ASSUME NEW x \in Requests, RequestStep(x) \/ Fail(x)
              PROVE  x = r \/ pc'[r] = pc[r]
          BY <4>3, HandlerFrame
        <4>4. CASE Prune \/ \E o \in Requests : Expire(o)
          BY <4>4, TimeFrame
        <4> QED
          BY <4>1, <4>2, <4>3, <4>4 DEF Next
      <3> QED
        BY <3>2, <3>4, <3>5
    <2>2. CASE pc[r] = "idle"
      <3>1. PICK q \in Requests, k \in Calls : Receive(r, q, k)
        <4>1. Next
          BY <1>3, <2>2 DEF vars, Handling, Resting
        <4>2. ~Prune /\ \A o \in Requests : ~Expire(o)
          BY <1>3, <2>2, TimeFrame DEF Handling, Resting
        <4>3. \A x \in Requests : ~RequestStep(x) /\ ~Fail(x)
          BY <1>3, <2>2, HandlerFrame DEF Handling, Resting
        <4> QED
          BY <1>3, <2>2, <4>1, <4>2, <4>3 DEF Next, Receive, Stop, Goto, Handling, Resting
      <3>2. pc'[r] = FirstStep[k.kind]
        BY <1>3, <3>1 DEF Receive, Stop, Goto, Handling, Resting
      <3> QED
        BY <3>2, CallsTyped DEF FirstStep, AboutOrder
    <2> QED
      BY <2>1, <2>2
  <1>4. ASSUME NEW r \in Requests,
               pc'[r] \in (ChallengeSteps \ {"challengeRead"}) \cup ProofSteps
        PROVE  OwnerAsks(r)'
    <2>1. /\ pc'[r] \in Handling
          /\ pc'[r] \notin {"orderInsert", "challengeRead", "finalizeRead"}
      BY <1>4 DEF Handling, Steps, Resting, ChallengeSteps, ProofSteps
    <2>2. pc[r] \notin OrderSteps /\ OwnerAsks(r)
      <3>1. CASE pc'[r] = pc[r]
        BY <1>4, <3>1 DEF OwnershipInv, OrderSteps, ChallengeSteps, ProofSteps
      <3>2. CASE RequestStep(r) \/ Fail(r)
        BY <1>4, <3>2, RightsGained, OrderStepsStay DEF OwnershipInv, ChallengeSteps, ProofSteps, OrderSteps
      <3> QED
        BY <1>3, <2>1, <3>1, <3>2
    <2> QED
      BY <1>3, <2>1, <2>2
  <1>5. ASSUME NEW r \in Requests, pc'[r] \in {"sign", "attach"}
        PROVE  OwnerAsks(r)' /\ Authorised(r)'
    <2>1. /\ pc'[r] \in Handling
          /\ pc'[r] \notin {"orderInsert", "challengeRead", "finalizeRead"}
      BY <1>5 DEF Handling, Steps, Resting, FinalizeSteps
    <2>2. pc[r] \notin OrderSteps /\ OwnerAsks(r) /\ Authorised(r)
      <3>1. CASE pc'[r] = pc[r]
        BY <1>5, <3>1 DEF OwnershipInv, OrderSteps
      <3>2. CASE RequestStep(r) \/ Fail(r)
        BY <1>5, <3>2, RightsGained, OrderStepsStay DEF OwnershipInv, OrderSteps
      <3> QED
        BY <1>3, <2>1, <3>1, <3>2
    <2> QED
      BY <1>3, <2>1, <2>2
  <1> QED
    BY <1>1, <1>2, <1>4, <1>5 DEF OwnershipInv

LEMMA OwnershipAlways == Spec => [](TypeInv /\ RequestInv /\ OwnershipInv)
  <1>1. Init => OwnershipInv
    BY DEF Init, OwnershipInv, ChallengeSteps, ProofSteps
  <1> QED
    BY RequestAlways, OwnershipStep, <1>1, PTL DEF Spec

-----------------------------------------------------------------------------
(* A valid order has its certificate.                                      *)

\* What only grows, and the steps that make it grow.
LEMMA Growth ==
    ASSUME TypeInv, [Next]_vars
    PROVE  /\ certs \subseteq certs' /\ proven \subseteq proven' /\ rushed \subseteq rushed'
           /\ certs' # certs => \E r \in Requests : Sign(r)
  <1>1. CASE UNCHANGED vars
    BY <1>1 DEF vars, tables
  <1>2. ASSUME NEW r \in Requests, RequestStep(r)
        PROVE  /\ certs \subseteq certs' /\ proven \subseteq proven' /\ rushed \subseteq rushed'
               /\ certs' # certs => Sign(r)
    BY <1>2 DEF RequestStep, OrderInsert, AuthzInsert, ChallengeInsert, ChallengeRead,
                MarkProcessing, Settle, AuthzValid, OrderRead, AuthzList, OrderReady, ChallengeList,
                AuthzInvalid, OrderFailRead, OrderInvalid, FinalizeRead, Sign, Attach, OrderReject,
                tables
  <1>3. ASSUME NEW r \in Requests, Fail(r) \/ \E q \in Requests, k \in Calls : Receive(r, q, k)
        PROVE  UNCHANGED <<certs, proven, rushed>>
    BY <1>3 DEF Fail, Receive, tables
  <1>4. CASE Prune \/ \E o \in Requests : Expire(o)
    BY <1>4, TimeFrame
  <1> QED
    BY <1>1, <1>2, <1>3, <1>4 DEF Next

\* The certificate a request has signed.
Signed(r) == [id |-> r, order |-> Order(r), account |-> call[r].account, names |-> call[r].names]

SignedInv ==
    /\ \A r \in Requests : pc[r] = "attach" => Signed(r) \in certs
    /\ ValidOrderHasCertificate

\* A request reaches the save of the order only by signing.
LEMMA AttachGained ==
    ASSUME TypeInv, [Next]_vars, NEW r \in Requests, pc'[r] = "attach", pc[r] # "attach"
    PROVE  Sign(r)
  <1> USE DEF TypeInv, TypeOK, RequestsOK, Goto, Stop
  <1>1. Next
    BY DEF vars
  <1>2. ASSUME NEW x \in Requests, NEW q \in Requests, NEW k \in Calls, Receive(x, q, k)
        PROVE  FALSE
    <2>1. FirstStep[k.kind] # "attach"
      BY CallsTyped DEF FirstStep, AboutOrder
    <2> QED
      BY <1>2, <2>1 DEF Receive
  <1>3. ASSUME NEW x \in Requests, RequestStep(x) \/ Fail(x) PROVE x = r
    BY <1>3, HandlerFrame
  <1>4. ~Fail(r)
    BY DEF Fail
  <1>5. ~Prune /\ \A o \in Requests : ~Expire(o)
    BY TimeFrame
  <1>6. RequestStep(r)
    BY <1>1, <1>2, <1>3, <1>4, <1>5 DEF Next
  <1>7. AfterFinalizeRead(r) \in {"ok", "error", "sign", "orderReject"}
    BY DEF AfterFinalizeRead
  <1> QED
    BY <1>6, <1>7 DEF RequestStep, OrderInsert, AuthzInsert, ChallengeInsert, ChallengeRead,
                MarkProcessing, Settle, AuthzValid, OrderRead, AuthzList, OrderReady, ChallengeList,
                AuthzInvalid, OrderFailRead, OrderInvalid, FinalizeRead, Attach, OrderReject

LEMMA SignedStep ==
    TypeInv /\ RequestInv /\ OwnershipInv /\ SignedInv /\ [Next]_vars => SignedInv'
  <1> SUFFICES ASSUME TypeInv, RequestInv, OwnershipInv, SignedInv, [Next]_vars
               PROVE  SignedInv'
    OBVIOUS
  <1>1. ASSUME NEW r \in Requests, pc'[r] = "attach" PROVE Signed(r)' \in certs'
    <2>1. CASE pc[r] = "attach"
      <3>1. call'[r] = call[r]
        BY <2>1, RequestStands
      <3> QED
        BY <2>1, <3>1, Growth DEF SignedInv, Signed, Order
    <2>2. CASE pc[r] # "attach"
      <3>1. Sign(r)
        BY <1>1, <2>2, AttachGained
      <3> QED
        BY <3>1 DEF Sign, Signed, Order
    <2> QED
      BY <2>1, <2>2
  <1>2. ASSUME NEW o \in Requests, orders'[o] # None, orders'[o].status = "valid"
        PROVE  \E c \in certs' : /\ c.id = orders'[o].cert /\ c.order = o
                                 /\ c.account = call'[o].account /\ c.names \subseteq call'[o].names
    <2>1. CASE orders'[o] = orders[o]
      <3>1. call'[o] = call[o]
        BY <1>2, <2>1, RequestStands DEF OwnershipInv, Opened
      <3> QED
        BY <1>2, <2>1, <3>1, Growth DEF SignedInv, ValidOrderHasCertificate
    <2>2. CASE orders'[o] # orders[o]
      <3>1. PICK r \in Requests : o = Order(r) /\ Attach(r) /\ orders'[o] = Attached(r)
        <4>1. Next
          BY <2>2 DEF vars, tables
        <4> QED
          BY <1>2, <2>2, <4>1, OrderWritten DEF NewRow
      <3>2. pc[r] = "attach" /\ Signed(r) \in certs /\ UNCHANGED <<certs, call>>
        BY <3>1 DEF Attach, SignedInv
      <3>3. OwnerAsks(r) /\ Authorised(r)
        BY <3>2 DEF OwnershipInv
      <3>4. Signed(r).id = orders'[o].cert /\ Signed(r).order = o
        BY <3>1 DEF Signed, Attached
      <3>5. Signed(r).account = call'[o].account /\ Signed(r).names \subseteq call'[o].names
        BY <3>1, <3>2, <3>3 DEF Signed, OwnerAsks, Authorised
      <3> QED
        BY <3>2, <3>4, <3>5
    <2> QED
      BY <2>1, <2>2
  <1> QED
    BY <1>1, <1>2 DEF SignedInv, ValidOrderHasCertificate

\* However finalizations, validations and the prune job race and fail, an order
\* that shows as valid has a certificate: its own, for its owner, and for none
\* but its identifiers.
THEOREM ValidHasCertificate == Spec => []ValidOrderHasCertificate
  <1>1. Init => SignedInv
    BY DEF Init, SignedInv, ValidOrderHasCertificate
  <1>2. SignedInv => ValidOrderHasCertificate
    BY DEF SignedInv
  <1> QED
    BY OwnershipAlways, SignedStep, <1>1, <1>2, PTL DEF Spec

-----------------------------------------------------------------------------
(* A certificate is proved, or its order was judged too early.             *)

Shown(o, n)   == <<call[o].account, n>> \in proven
AllShown(o)   == \A n \in call[o].names : Shown(o, n)
Cleared(o)    == AllShown(o) \/ o \in rushed

\* Where the proof of each name is, from the validator's answer to the signature.
ProofInv ==
    /\ \A o \in Requests, n \in Names :
          authzs[<<o, n>>] # Absent => pc[o] # "idle"
    /\ \A o \in Requests, n \in Names :
          authzs[<<o, n>>] = "valid" => Shown(o, n)
    /\ \A r \in Requests :
          pc[r] \in {"authzValid", "orderRead", "authzList"} => Shown(r, call[r].name)
    /\ \A r \in Requests : pc[r] \in {"orderReady", "sign"} => Cleared(Order(r))
    /\ \A o \in Requests : orders[o] # None /\ orders[o].status = "ready" => Cleared(o)
    /\ UnprovenWereRushed

\* An authorization row is written by its order's request, or by a validation.
LEMMA AuthzWritten ==
    ASSUME TypeInv, Next, NEW o \in Requests, NEW n \in Names,
           authzs'[<<o, n>>] # authzs[<<o, n>>]
    PROVE  \/ AuthzInsert(o) /\ authzs'[<<o, n>>] = "pending"
           \/ \E r \in Requests :
                 /\ Authz(r) = <<o, n>>
                 /\ \/ AuthzValid(r) /\ authzs'[<<o, n>>] = "valid"
                    \/ AuthzInvalid(r) /\ authzs'[<<o, n>>] = "invalid"
           \/ "prune" \in Kinds /\ authzs'[<<o, n>>] = Absent
  <1> <<o, n>> \in AuthzIds
    BY DEF AuthzIds
  <1> USE DEF TypeInv, TypeOK, TablesOK, tables
  <1>1. ASSUME NEW r \in Requests, AuthzInsert(r)
        PROVE  r = o /\ authzs'[<<o, n>>] = "pending"
    BY <1>1 DEF AuthzInsert
  <1>2. ASSUME NEW r \in Requests, AuthzValid(r)
        PROVE  Authz(r) = <<o, n>> /\ authzs'[<<o, n>>] = "valid"
    BY <1>2 DEF AuthzValid
  <1>3. ASSUME NEW r \in Requests, AuthzInvalid(r)
        PROVE  Authz(r) = <<o, n>> /\ authzs'[<<o, n>>] = "invalid"
    BY <1>3 DEF AuthzInvalid
  <1>4. CASE Prune
    BY <1>4 DEF Prune
  <1>5. ASSUME NEW r \in Requests, RequestStep(r)
        PROVE  AuthzInsert(r) \/ AuthzValid(r) \/ AuthzInvalid(r)
    BY <1>5 DEF RequestStep, OrderInsert, ChallengeInsert, ChallengeRead, MarkProcessing, Settle,
                OrderRead, AuthzList, OrderReady, ChallengeList, OrderFailRead, OrderInvalid,
                FinalizeRead, Sign, Attach, OrderReject
  <1>6. \A r \in Requests : ~Fail(r) /\ ~Expire(r) /\ \A q \in Requests, k \in Calls : ~Receive(r, q, k)
    BY DEF Receive, Fail, Expire
  <1>7. Prune \/ \E r \in Requests : RequestStep(r)
    BY <1>6 DEF Next
  <1> QED
    BY <1>1, <1>2, <1>3, <1>4, <1>5, <1>7

\* How a request comes to act on a proof.
LEMMA ProofGained ==
    ASSUME TypeInv, [Next]_vars, NEW r \in Requests, pc'[r] # pc[r]
    PROVE  /\ pc'[r] = "authzValid" => Settle(r) /\ <<call[r].account, call[r].name>> \in proven'
           /\ pc'[r] = "orderRead" => pc[r] = "authzValid"
           /\ pc'[r] = "authzList" => pc[r] = "orderRead"
           /\ pc'[r] = "orderReady" => AuthzList(r) /\ AllValid(Order(r))
           /\ pc'[r] = "sign" =>
                FinalizeRead(r) /\ orders[Order(r)] # None /\ orders[Order(r)].status = "ready"
  <1> USE DEF TypeInv, TypeOK, RequestsOK, Goto, Stop
  <1>1. Next
    BY DEF vars
  <1>2. ASSUME NEW q \in Requests, NEW k \in Calls, Receive(r, q, k)
        PROVE  pc'[r] \in {"orderInsert", "challengeRead", "finalizeRead", "done"}
    <2>1. FirstStep[k.kind] \in {"orderInsert", "challengeRead", "finalizeRead"}
      BY CallsTyped DEF FirstStep, AboutOrder
    <2> QED
      BY <1>2, <2>1 DEF Receive
  <1>3. ASSUME NEW x \in Requests, NEW q \in Requests, NEW k \in Calls, Receive(x, q, k)
        PROVE  x = r
    BY <1>3 DEF Receive
  <1>4. ASSUME NEW x \in Requests, RequestStep(x) \/ Fail(x) PROVE x = r
    BY <1>4, HandlerFrame
  <1>5. Fail(r) => pc'[r] \in {"done", "settle", "challengeList", "orderReject"}
    BY DEF Fail
  <1>6. ~Prune /\ \A o \in Requests : ~Expire(o)
    BY TimeFrame
  <1>7. \/ RequestStep(r)
        \/ pc'[r] \in {"orderInsert", "challengeRead", "finalizeRead", "done", "settle",
                       "challengeList", "orderReject"}
    BY <1>1, <1>2, <1>3, <1>4, <1>5, <1>6 DEF Next
  <1>8. /\ AfterFinalizeRead(r) \in {"ok", "error", "sign", "orderReject"}
        /\ AfterFinalizeRead(r) = "sign" => orders[Order(r)].status = "ready"
    BY DEF AfterFinalizeRead
  <1>9. CASE RequestStep(r)
    <2>1. CASE Settle(r)
      BY <2>1 DEF Settle
    <2>2. CASE FinalizeRead(r)
      BY <1>8, <2>2 DEF FinalizeRead
    <2>3. CASE AuthzList(r)
      BY <2>3 DEF AuthzList
    <2> QED
      BY <1>9, <2>1, <2>2, <2>3
         DEF RequestStep, OrderInsert, AuthzInsert, ChallengeInsert, ChallengeRead, MarkProcessing,
             AuthzValid, OrderRead, OrderReady, ChallengeList, AuthzInvalid, OrderFailRead,
             OrderInvalid, Sign, Attach, OrderReject
  <1> QED
    BY <1>7, <1>9

ProofAll == TypeInv /\ RequestInv /\ OwnershipInv /\ ProofInv

\* What has been shown stays shown, by the account that owns the order.
LEMMA ShownStays ==
    ASSUME ProofAll, [Next]_vars, NEW o \in Requests, pc[o] # "idle"
    PROVE  /\ call'[o] = call[o]
           /\ \A n \in Names : Shown(o, n) => Shown(o, n)'
           /\ Cleared(o) => Cleared(o)'
  <1>1. call'[o] = call[o]
    BY RequestStands DEF ProofAll
  <1>2. proven \subseteq proven' /\ rushed \subseteq rushed'
    BY Growth DEF ProofAll
  <1> QED
    BY <1>1, <1>2 DEF Shown, AllShown, Cleared

\* A validation is about a name of an order that was opened, by its owner.
LEMMA ValidationTarget ==
    ASSUME ProofAll, NEW r \in Requests, pc[r] \notin Resting \cup OrderSteps
    PROVE  /\ Order(r) \in Requests /\ Opened(Order(r)) /\ pc[Order(r)] # "idle"
           /\ call[Order(r)] \in Calls /\ call[Order(r)].names \in OrderNames
           /\ call[Order(r)].names \subseteq Names
           /\ call[r].kind = "challenge" => call[r].name \in call[Order(r)].names
  <1>1. pc[r] \in Steps
    BY DEF ProofAll, TypeInv, TypeOK, RequestsOK
  <1>2. call[r].kind \in AboutOrder
    BY <1>1 DEF ProofAll, TypeInv, ControlOK, Steps, Resting, AboutOrder
  <1>3. Order(r) \in Requests
    BY TargetTyped DEF ProofAll
  <1>4. /\ Opened(Order(r))
        /\ call[r].kind = "challenge" => call[r].name \in call[Order(r)].names
    BY <1>2 DEF ProofAll, OwnershipInv, Resting
  <1>5. call[Order(r)] \in Calls
    BY <1>3, <1>4 DEF ProofAll, TypeInv, ControlOK, Opened
  <1> QED
    BY <1>3, <1>4, <1>5, CallsTyped DEF Opened

LEMMA AuthzShown ==
    ASSUME ProofAll, [Next]_vars, NEW o \in Requests, NEW n \in Names
    PROVE  /\ authzs'[<<o, n>>] # Absent => pc'[o] # "idle"
           /\ authzs'[<<o, n>>] = "valid" => Shown(o, n)'
  <1> USE DEF ProofAll
  <1>1. CASE authzs'[<<o, n>>] = authzs[<<o, n>>]
    <2>1. CASE authzs[<<o, n>>] = Absent
      BY <1>1, <2>1 DEF Absent
    <2>2. CASE authzs[<<o, n>>] # Absent
      BY <1>1, <2>2, ShownStays, RequestStands DEF ProofInv
    <2> QED
      BY <2>1, <2>2
  <1>2. CASE authzs'[<<o, n>>] # authzs[<<o, n>>]
    <2>1. Next
      BY <1>2 DEF vars, tables
    <2>2. CASE AuthzInsert(o) /\ authzs'[<<o, n>>] = "pending"
      BY <2>2 DEF AuthzInsert, Goto, TypeInv, TypeOK, RequestsOK
    <2>3. ASSUME NEW r \in Requests, Authz(r) = <<o, n>>, AuthzValid(r) \/ AuthzInvalid(r)
          PROVE  /\ pc'[o] # "idle"
                 /\ AuthzValid(r) => Shown(o, n)'
      <3>1. /\ o = Order(r) /\ n = call[r].name
            /\ pc[r] \in {"authzValid", "authzInvalid"} /\ pc[r] \notin Resting \cup OrderSteps
        BY <2>3 DEF Authz, Order, AuthzValid, AuthzInvalid, Resting, OrderSteps
      <3>2. pc[o] # "idle"
        BY <3>1, ValidationTarget
      <3>3. AuthzValid(r) => Shown(r, n) /\ OwnerAsks(r)
        BY <3>1 DEF AuthzValid, ProofInv, OwnershipInv, ProofSteps
      <3>4. AuthzValid(r) => Shown(o, n)
        BY <3>1, <3>3 DEF Shown, OwnerAsks
      <3> QED
        BY <3>2, <3>4, ShownStays, RequestStands
    <2>4. CASE authzs'[<<o, n>>] = Absent
      BY <2>4 DEF Absent
    <2> QED
      BY <1>2, <2>1, <2>2, <2>3, <2>4, AuthzWritten
  <1> QED
    BY <1>1, <1>2

\* When every name of an order has a row and all of them are valid, every name
\* has been shown.
LEMMA ListShowsAll ==
    ASSUME ProofAll, NEW r \in Requests, pc[r] = "authzList", AllValid(Order(r)),
           AllListed(Order(r))
    PROVE  AllShown(Order(r))
  <1>1. pc[r] \notin Resting \cup OrderSteps
    BY DEF Resting, OrderSteps
  <1>2. call[Order(r)].names \subseteq Names /\ Order(r) \in Requests
    BY <1>1, ValidationTarget
  <1> QED
    BY <1>2 DEF AllValid, AllListed, AllShown, ProofAll, ProofInv

LEMMA ProofStep == ProofAll /\ [Next]_vars => ProofInv'
  <1> SUFFICES ASSUME ProofAll, [Next]_vars PROVE ProofInv'
    OBVIOUS
  <1> USE DEF ProofAll, TypeInv, TypeOK, RequestsOK
  <1>1. ASSUME NEW r \in Requests, pc'[r] \in {"authzValid", "orderRead", "authzList"}
        PROVE  Shown(r, call[r].name)'
    <2>1. CASE pc[r] \in {"authzValid", "orderRead", "authzList"}
      <3>1. call[r].name \in Names /\ pc[r] # "idle"
        BY <2>1, TargetTyped DEF Resting, OrderSteps, ControlOK, ProofSteps
      <3>2. Shown(r, call[r].name)
        BY <2>1 DEF ProofInv
      <3> QED
        BY <3>1, <3>2, ShownStays
    <2>2. CASE pc[r] \notin {"authzValid", "orderRead", "authzList"}
      <3>1. Settle(r) /\ <<call[r].account, call[r].name>> \in proven'
        BY <1>1, <2>2, ProofGained
      <3> QED
        BY <3>1 DEF Settle, Shown
    <2> QED
      BY <2>1, <2>2
  <1>2. ASSUME NEW r \in Requests, pc'[r] \in {"orderReady", "sign"}
        PROVE  Cleared(Order(r))'
    <2>1. pc[r] \notin Resting \cup OrderSteps
      BY <1>2, ProofGained DEF AuthzList, FinalizeRead, Resting, OrderSteps
    <2>2. Order(r) \in Requests /\ pc[Order(r)] # "idle" /\ pc[r] # "idle"
      BY <2>1, ValidationTarget DEF Resting
    <2>3. Order(r)' = Order(r)
      BY <2>2, ShownStays DEF Order
    <2>4. Cleared(Order(r)) => (Cleared(Order(r)))'
      <3>1. call'[Order(r)] = call[Order(r)] /\ proven \subseteq proven' /\ rushed \subseteq rushed'
        BY <2>2, ShownStays, Growth
      <3> QED
        BY <2>3, <3>1 DEF Cleared, AllShown, Shown
    <2>5. CASE pc[r] = pc'[r]
      BY <1>2, <2>4, <2>5 DEF ProofInv
    <2>6. CASE pc[r] # pc'[r] /\ pc'[r] = "orderReady"
      <3>1. AuthzList(r) /\ AllValid(Order(r)) /\ pc[r] = "authzList"
        BY <2>6, ProofGained DEF AuthzList
      <3>2. CASE AllListed(Order(r))
        BY <2>4, <3>1, <3>2, ListShowsAll DEF Cleared
      <3>3. CASE ~AllListed(Order(r))
        <4>1. Order(r) \in rushed'
          BY <3>1, <3>3 DEF AuthzList
        <4> QED
          BY <2>3, <4>1 DEF Cleared
      <3> QED
        BY <3>2, <3>3
    <2>7. CASE pc[r] # pc'[r] /\ pc'[r] = "sign"
      <3>1. orders[Order(r)] # None /\ orders[Order(r)].status = "ready"
        BY <2>7, ProofGained
      <3> QED
        BY <2>2, <2>4, <3>1 DEF ProofInv
    <2> QED
      BY <1>2, <2>5, <2>6, <2>7
  <1>3. ASSUME NEW o \in Requests, orders'[o] # None, orders'[o].status = "ready"
        PROVE  Cleared(o)'
    <2>1. CASE orders'[o] = orders[o]
      BY <1>3, <2>1, ShownStays DEF ProofInv, OwnershipInv, Opened
    <2>2. CASE orders'[o] # orders[o]
      <3>1. Next
        BY <2>2 DEF vars, tables
      <3>2. PICK r \in Requests : o = Order(r) /\ OrderReady(r)
        <4>1. NewRow.status = "pending" /\ \A q \in Requests : Attached(q).status = "valid"
          BY DEF NewRow, Attached
        <4> QED
          BY <1>3, <2>2, <3>1, <4>1, OrderWritten
      <3>3. Cleared(o) /\ pc[o] # "idle"
        BY <3>2, ValidationTarget DEF OrderReady, ProofInv, Resting, OrderSteps
      <3> QED
        BY <3>3, ShownStays
    <2> QED
      BY <2>1, <2>2
  <1>4. UnprovenWereRushed'
    <2>1. proven \subseteq proven' /\ rushed \subseteq rushed'
      BY Growth
    <2>2. CASE certs' = certs
      BY <2>1, <2>2 DEF ProofInv, UnprovenWereRushed
    <2>3. CASE certs' # certs
      <3>1. PICK r \in Requests : Sign(r)
        BY <2>3, Growth
      <3>2. Cleared(Order(r)) /\ OwnerAsks(r) /\ Authorised(r)
        BY <3>1 DEF Sign, ProofInv, OwnershipInv
      <3>3. \A n \in call[r].names : <<call[r].account, n>> \in proven \/ Order(r) \in rushed
        BY <3>2 DEF Cleared, AllShown, Shown, OwnerAsks, Authorised
      <3>4. certs' = certs \cup {Signed(r)} /\ UNCHANGED <<proven, rushed>>
        BY <3>1 DEF Sign, Signed
      <3>5. \A n \in Signed(r).names :
               <<Signed(r).account, n>> \in proven \/ Signed(r).order \in rushed
        BY <3>3 DEF Signed
      <3> QED
        BY <3>4, <3>5 DEF ProofInv, UnprovenWereRushed
    <2> QED
      BY <2>2, <2>3
  <1> QED
    BY <1>1, <1>2, <1>3, <1>4, AuthzShown DEF ProofInv

\* Whatever requests race and fail, and whatever is pruned under them, a
\* certificate names only what its account has shown to control, unless its
\* order was found ready while it lacked an authorization row for one of its
\* names.  (A client that takes an order from its list while new-order still
\* inserts its rows can bring that about: README.md, section 5.)
THEOREM OnlyRushedAreUnproven == Spec => []UnprovenWereRushed
  <1>1. Init => ProofInv
    BY DEF Init, ProofInv, UnprovenWereRushed, Absent, AuthzIds
  <1>2. TypeInv /\ RequestInv /\ OwnershipInv /\ ProofInv /\ [Next]_vars => ProofInv'
    BY ProofStep DEF ProofAll
  <1>3. ProofInv => UnprovenWereRushed
    BY DEF ProofInv
  <1> QED
    BY OwnershipAlways, <1>1, <1>2, <1>3, PTL DEF Spec

-----------------------------------------------------------------------------
(* No order is left pending.                                               *)

\* The row of an order is in the table, or has been.
Placed(o) == call[o].kind = "newOrder" /\ pc[o] \notin {"idle", "orderInsert"}

\* The rows under an order are of an order that was inserted, of its names, and
\* of the challenge types those names are offered.
RowsInv ==
    /\ \A o \in Requests : orders[o] # None => Placed(o)
    /\ \A r \in Requests : pc[r] # "idle" /\ call[r].kind \in AboutOrder => Placed(Order(r))
    /\ \A r \in Requests : pc[r] \in OrderSteps => todo[r] \subseteq call[r].names
    /\ \A r \in Requests : pc[r] \in {"markProcessing", "settle"} =>
          call[r].type \in Offered(call[r].name)
    /\ \A o \in Requests, n \in Names :
          authzs[<<o, n>>] # Absent => Placed(o) /\ n \in call[o].names
    /\ \A o \in Requests, n \in Names, t \in Types :
          challenges[<<o, n, t>>] # None => Placed(o) /\ t \in Offered(n)

AllProved(o)   == \A n \in call[o].names : authzs[<<o, n>>] = "valid"
NoneLeft(o, n) ==
    /\ Offered(n) # {}
    /\ \A t \in Offered(n) : /\ challenges[<<o, n, t>>] # None
                             /\ challenges[<<o, n, t>>].status = "invalid"
Waits(o)       == orders[o] # None /\ orders[o].status = "pending"

\* While nothing has failed, a request is on its way to move a pending order
\* that is decided: one that will list its authorizations or save it as ready,
\* or one that will list the challenges of the failed name, or is past that.
WillReady(o)     == \E r \in Requests :
    Order(r) = o /\ pc[r] \in {"orderRead", "authzList", "orderReady"}
WillReject(o, n) == \E r \in Requests :
    /\ Order(r) = o
    /\ \/ pc[r] = "challengeList" /\ call[r].name = n
       \/ pc[r] \in {"authzInvalid", "orderFailRead", "orderInvalid"}

StuckInv ==
    failures = 0 => \A o \in Requests : Waits(o) =>
       /\ AllProved(o) => WillReady(o)
       /\ \A n \in call[o].names : NoneLeft(o, n) => WillReject(o, n)

\* A challenge row is written by its order's request, or by a validation.
LEMMA ChallengeWritten ==
    ASSUME TypeInv, Next, NEW o \in Requests, NEW n \in Names, NEW t \in Types,
           challenges'[<<o, n, t>>] # challenges[<<o, n, t>>]
    PROVE  \/ /\ ChallengeInsert(o) /\ n = cur[o] /\ t \in Offered(n)
              /\ challenges'[<<o, n, t>>].status = "pending"
           \/ \E r \in Requests :
                 /\ Challenge(r) = <<o, n, t>>
                 /\ \/ MarkProcessing(r) /\ challenges'[<<o, n, t>>].status = "processing"
                    \/ Settle(r) /\ challenges'[<<o, n, t>>].status = "valid"
                    \/ Settle(r) /\ Goto(r, "challengeList")
           \/ Prune /\ challenges'[<<o, n, t>>] = None
  <1> <<o, n, t>> \in ChallengeIds
    BY DEF ChallengeIds
  <1> USE DEF TypeInv, TypeOK, TablesOK, tables
  <1>1. ASSUME NEW r \in Requests, ChallengeInsert(r)
        PROVE  /\ r = o /\ n = cur[o] /\ t \in Offered(n)
               /\ challenges'[<<o, n, t>>].status = "pending"
    <2>1. PICK u \in Offered(cur[r]) :
            challenges' = [challenges EXCEPT ![<<r, cur[r], u>>] =
                             [status |-> "pending", attempts |-> 0]]
      BY <1>1 DEF ChallengeInsert
    <2>2. <<r, cur[r], u>> = <<o, n, t>>
      BY <2>1
    <2> QED
      BY <2>1, <2>2
  <1>2. ASSUME NEW r \in Requests, MarkProcessing(r)
        PROVE  Challenge(r) = <<o, n, t>> /\ challenges'[<<o, n, t>>].status = "processing"
    BY <1>2 DEF MarkProcessing, Marked
  <1>3. ASSUME NEW r \in Requests, Settle(r)
        PROVE  /\ Challenge(r) = <<o, n, t>>
               /\ challenges'[<<o, n, t>>].status = "valid" \/ Goto(r, "challengeList")
    BY <1>3 DEF Settle
  <1>4. CASE Prune
    BY <1>4 DEF Prune
  <1>5. ASSUME NEW r \in Requests, RequestStep(r)
        PROVE  ChallengeInsert(r) \/ MarkProcessing(r) \/ Settle(r)
    BY <1>5 DEF RequestStep, OrderInsert, AuthzInsert, ChallengeRead, AuthzValid,
                OrderRead, AuthzList, OrderReady, ChallengeList, AuthzInvalid, OrderFailRead,
                OrderInvalid, FinalizeRead, Sign, Attach, OrderReject
  <1>6. \A r \in Requests : ~Fail(r) /\ ~Expire(r) /\ \A q \in Requests, k \in Calls : ~Receive(r, q, k)
    BY DEF Receive, Fail, Expire
  <1>7. Prune \/ \E r \in Requests : RequestStep(r)
    BY <1>6 DEF Next
  <1> QED
    BY <1>1, <1>2, <1>3, <1>4, <1>5, <1>7

\* Only its arrival takes a request to its first statement.
LEMMA ArrivalStarts ==
    ASSUME TypeInv, NEW r \in Requests, RequestStep(r) \/ Fail(r)
    PROVE  pc'[r] \notin {"orderInsert", "challengeRead", "finalizeRead"}
  <1> USE DEF TypeInv, TypeOK, RequestsOK, Goto, Stop
  <1>1. CASE Fail(r)
    BY <1>1 DEF Fail
  <1>2. CASE FinalizeRead(r)
    BY <1>2 DEF FinalizeRead, AfterFinalizeRead
  <1> QED
    BY <1>1, <1>2
       DEF RequestStep, OrderInsert, AuthzInsert, ChallengeInsert, ChallengeRead, MarkProcessing,
           Settle, AuthzValid, OrderRead, AuthzList, OrderReady, ChallengeList, AuthzInvalid,
           OrderFailRead, OrderInvalid, Sign, Attach, OrderReject

LEMMA PlacedStays ==
    ASSUME TypeInv, RequestInv, [Next]_vars, NEW o \in Requests, Placed(o)
    PROVE  Placed(o)' /\ call'[o] = call[o] /\ (pc[o] = "done" => pc'[o] = "done")
  <1> USE DEF Placed
  <1>1. pc'[o] # "idle" /\ call'[o] = call[o] /\ (pc[o] = "done" => pc'[o] = "done")
    BY RequestStands
  <1>2. pc'[o] # "orderInsert"
    <2>1. CASE UNCHANGED vars
      BY <2>1 DEF vars
    <2>2. ASSUME NEW x \in Requests, NEW q \in Requests, NEW k \in Calls, Receive(x, q, k)
          PROVE  pc'[o] = pc[o]
      BY <2>2 DEF TypeInv, TypeOK, RequestsOK, Receive, Stop, Goto
    <2>3. ASSUME NEW x \in Requests, RequestStep(x) \/ Fail(x)
          PROVE  pc'[o] # "orderInsert"
      BY <2>3, HandlerFrame, ArrivalStarts
    <2>4. CASE Prune \/ \E x \in Requests : Expire(x)
      BY <2>4, TimeFrame
    <2> QED
      BY <2>1, <2>2, <2>3, <2>4 DEF Next
  <1> QED
    BY <1>1, <1>2

StuckAll == TypeInv /\ RequestInv /\ OwnershipInv /\ RowsInv

\* A validation is about a row that can exist.
LEMMA RowTarget ==
    ASSUME StuckAll, NEW r \in Requests, pc[r] \in ChallengeSteps \cup ProofSteps \cup DenialSteps
    PROVE  /\ Order(r) \in Requests /\ call[r].name \in Names /\ call[r].type \in Types
           /\ Placed(Order(r)) /\ call[r].name \in call[Order(r)].names
           /\ pc[r] \notin Resting \cup OrderSteps /\ pc[r] # "idle"
  <1>1. /\ call[r].kind = "challenge" /\ call[r] \in Calls
        /\ pc[r] \notin Resting \cup OrderSteps
    BY DEF StuckAll, TypeInv, ControlOK, Resting, OrderSteps, ChallengeSteps, ProofSteps, DenialSteps
  <1> QED
    BY <1>1, CallsTyped DEF StuckAll, RowsInv, OwnershipInv, Order, AboutOrder, Resting

\* The names a request still has to insert are some of those it asked for.
LEMMA TodoStep ==
    ASSUME StuckAll, [Next]_vars, NEW r \in Requests, pc'[r] \in OrderSteps
    PROVE  todo'[r] \subseteq call'[r].names
  <1> USE DEF StuckAll, TypeInv, TypeOK, RequestsOK, MemoryOK
  <1>1. CASE UNCHANGED vars
    BY <1>1 DEF vars, memory, RowsInv
  <1>2. ASSUME NEW x \in Requests, NEW q \in Requests, NEW k \in Calls, Receive(x, q, k)
        PROVE  todo'[r] \subseteq call'[r].names
    <2>1. CASE x = r
      <3>1. pc'[r] # "done"
        BY DEF OrderSteps
      <3> QED
        BY <1>2, <2>1, <3>1 DEF Receive, Stop, Goto
    <2>2. CASE x # r
      BY <1>2, <2>2 DEF Receive, Stop, Goto, RowsInv
    <2> QED
      BY <2>1, <2>2
  <1>3. ASSUME NEW x \in Requests, RequestStep(x) \/ Fail(x), x # r
        PROVE  todo'[r] \subseteq call'[r].names
    <2>1. todo'[r] = todo[r]
      BY <1>3 DEF Fail, RequestStep, OrderInsert, AuthzInsert, ChallengeInsert, ChallengeRead,
                  MarkProcessing, Settle, AuthzValid, OrderRead, AuthzList, OrderReady,
                  ChallengeList, AuthzInvalid, OrderFailRead, OrderInvalid, FinalizeRead, Sign,
                  Attach, OrderReject, Stop, memory
    <2> QED
      BY <1>3, <2>1, HandlerFrame DEF RowsInv
  <1>4. ASSUME RequestStep(r) \/ Fail(r)
        PROVE  todo'[r] \subseteq call'[r].names
    <2>1. pc'[r] # "done" /\ UNCHANGED call /\ ~Stop(r, "ok") /\ ~Stop(r, "error")
      BY <1>4, HandlerFrame DEF OrderSteps, Stop, Goto
    <2>2. CASE OrderInsert(r) \/ AuthzInsert(r) \/ ChallengeInsert(r)
      <3>1. pc[r] \in OrderSteps /\ todo'[r] \subseteq todo[r]
        <4>1. CASE OrderInsert(r)
          BY <4>1 DEF OrderInsert, OrderSteps, memory
        <4>2. CASE AuthzInsert(r)
          BY <4>2 DEF AuthzInsert, OrderSteps
        <4>3. CASE ChallengeInsert(r)
          BY <2>1, <4>3 DEF ChallengeInsert, OrderSteps, memory
        <4> QED
          BY <2>2, <4>1, <4>2, <4>3
      <3> QED
        BY <2>1, <3>1 DEF RowsInv
    <2>3. CASE ~(OrderInsert(r) \/ AuthzInsert(r) \/ ChallengeInsert(r))
      <3>1. AfterFinalizeRead(r) \in {"ok", "error", "sign", "orderReject"}
        BY DEF AfterFinalizeRead
      <3>2. pc'[r] \notin OrderSteps
        BY <1>4, <2>1, <2>3, <3>1
           DEF Fail, RequestStep, ChallengeRead, MarkProcessing, Settle, AuthzValid, OrderRead,
               AuthzList, OrderReady, ChallengeList, AuthzInvalid, OrderFailRead, OrderInvalid,
               FinalizeRead, Sign, Attach, OrderReject, OrderSteps, Goto
      <3> QED
        BY <3>2
    <2> QED
      BY <2>2, <2>3
  <1>5. CASE Prune \/ \E x \in Requests : Expire(x)
    BY <1>5, TimeFrame DEF memory, RowsInv
  <1> QED
    BY <1>1, <1>2, <1>3, <1>4, <1>5 DEF Next

\* A request works on the challenge it found.
LEMMA OfferedStep ==
    ASSUME StuckAll, [Next]_vars, NEW r \in Requests, pc'[r] \in {"markProcessing", "settle"}
    PROVE  call'[r].type \in Offered(call'[r].name)
  <1> USE DEF StuckAll, TypeInv, TypeOK, RequestsOK
  <1>1. CASE pc[r] \in {"markProcessing", "settle"}
    <2>1. call'[r] = call[r]
      BY <1>1, RequestStands
    <2> QED
      BY <1>1, <2>1 DEF RowsInv
  <1>2. CASE pc[r] \notin {"markProcessing", "settle"}
    <2>1. Next /\ pc'[r] # pc[r]
      BY <1>2 DEF vars
    <2>2. ASSUME NEW x \in Requests, NEW q \in Requests, NEW k \in Calls, Receive(x, q, k)
          PROVE  FALSE
      <3>1. FirstStep[k.kind] \in {"orderInsert", "challengeRead", "finalizeRead"}
        BY CallsTyped DEF FirstStep, AboutOrder
      <3> QED
        BY <1>2, <2>2, <3>1 DEF Receive, Stop, Goto
    <2>3. ASSUME NEW x \in Requests, RequestStep(x) \/ Fail(x) PROVE x = r
      BY <2>1, <2>3, HandlerFrame
    <2>4. ~Prune /\ \A o \in Requests : ~Expire(o)
      BY <2>1, TimeFrame
    <2>5. RequestStep(r) \/ Fail(r)
      BY <2>1, <2>2, <2>3, <2>4 DEF Next
    <2>6. ChallengeRead(r) /\ challenges[Challenge(r)] # None
      <3>1. ~Fail(r)
        BY <1>2 DEF Fail, Stop, Goto
      <3>2. AfterFinalizeRead(r) \in {"ok", "error", "sign", "orderReject"}
        BY DEF AfterFinalizeRead
      <3>3. ChallengeRead(r)
        BY <1>2, <2>5, <3>1, <3>2
           DEF RequestStep, OrderInsert, AuthzInsert, ChallengeInsert, MarkProcessing, Settle,
               AuthzValid, OrderRead, AuthzList, OrderReady, ChallengeList, AuthzInvalid,
               OrderFailRead, OrderInvalid, FinalizeRead, Sign, Attach, OrderReject, Stop, Goto
      <3> QED
        BY <3>3 DEF ChallengeRead, Stop, Goto
    <2>7. call'[r] = call[r] /\ pc[r] \in ChallengeSteps
      BY <2>6 DEF ChallengeRead, ChallengeSteps
    <2> QED
      BY <2>6, <2>7, RowTarget DEF RowsInv, Challenge, Order
  <1> QED
    BY <1>1, <1>2

LEMMA RowsStep == StuckAll /\ [Next]_vars => RowsInv'
  <1> SUFFICES ASSUME StuckAll, [Next]_vars PROVE RowsInv'
    OBVIOUS
  <1> USE DEF StuckAll, TypeInv, TypeOK, RequestsOK
  <1>1. ASSUME NEW o \in Requests, orders'[o] # None PROVE Placed(o)'
    <2>1. CASE orders'[o] = orders[o]
      BY <1>1, <2>1, PlacedStays DEF RowsInv
    <2>2. CASE orders'[o] # orders[o]
      <3>1. Next
        BY <2>2 DEF vars, tables
      <3>2. CASE OrderInsert(o)
        BY <3>2 DEF OrderInsert, Goto, Placed, ControlOK, OrderSteps
      <3>3. ASSUME NEW r \in Requests, o = Order(r), pc[r] \in Handling \ OrderSteps
            PROVE  Placed(o)'
        <4>1. call[r].kind \in AboutOrder /\ pc[r] # "idle"
          BY <3>3 DEF Handling, Resting, Steps, ControlOK, AboutOrder
        <4>2. Placed(o)
          BY <3>3, <4>1 DEF RowsInv
        <4> QED
          BY <4>2, PlacedStays
      <3> QED
        BY <1>1, <2>2, <3>1, <3>2, <3>3, OrderWritten
    <2> QED
      BY <2>1, <2>2
  <1>2. ASSUME NEW r \in Requests, pc'[r] # "idle", call'[r].kind \in AboutOrder
        PROVE  Placed(Order(r))'
    <2>1. CASE pc[r] # "idle"
      <3>1. call'[r] = call[r] /\ call[r] \in Calls
        BY <2>1, RequestStands DEF ControlOK
      <3>2. Order(r) \in Requests /\ Placed(Order(r)) /\ Order(r)' = Order(r)
        BY <1>2, <2>1, <3>1, CallsTyped DEF Order, RowsInv
      <3>3. PICK o \in Requests : o = Order(r)
        BY <3>2
      <3>4. Placed(o)'
        BY <3>2, <3>3, PlacedStays
      <3> QED
        BY <3>2, <3>3, <3>4 DEF Placed
    <2>2. CASE pc[r] = "idle"
      <3>1. PICK q \in Requests, k \in Calls : Receive(r, q, k)
        <4>1. Next
          BY <1>2, <2>2 DEF vars
        <4>2. ~Prune /\ \A o \in Requests : ~Expire(o)
          BY <1>2, <2>2, TimeFrame
        <4>3. \A x \in Requests : ~RequestStep(x) /\ ~Fail(x)
          BY <1>2, <2>2, HandlerFrame DEF Handling, Resting
        <4> QED
          BY <1>2, <2>2, <4>1, <4>2, <4>3 DEF Next, Receive, Stop, Goto
      <3>2. /\ call'[r] = k /\ k.kind \in AboutOrder /\ k.order \in Requests
            /\ Order(r)' = k.order
        BY <1>2, <3>1, CallsTyped DEF Receive, Order
      <3>3. PICK o \in Requests : o = k.order
        BY <3>2
      <3>4. Placed(o)
        <4>1. CASE q = r
          <5>1. Known(o)
            BY <3>1, <3>2, <3>3, <4>1 DEF Receive, Sendable, AboutOrder
          <5> QED
            BY <5>1 DEF Known, Placed, RowsInv, RequestInv
        <4>2. CASE q # r
          <5>1. jws[q] = q /\ k = call[q]
            BY <3>1, <4>2 DEF Receive
          <5>2. pc[q] # "idle"
            BY <5>1, AcmeNoneAssumption DEF RequestInv
          <5> QED
            BY <3>2, <3>3, <5>1, <5>2 DEF RowsInv, Order
        <4> QED
          BY <4>1, <4>2
      <3>5. Placed(o)'
        BY <3>4, PlacedStays
      <3> QED
        BY <3>2, <3>3, <3>5 DEF Placed
    <2> QED
      BY <2>1, <2>2
  <1>3. ASSUME NEW o \in Requests, NEW n \in Names, authzs'[<<o, n>>] # Absent
        PROVE  Placed(o)' /\ n \in call'[o].names
    <2>1. Placed(o)' /\ n \in call[o].names /\ call'[o] = call[o]
      <3>1. CASE authzs[<<o, n>>] # Absent
        BY <3>1, PlacedStays DEF RowsInv
      <3>2. CASE authzs[<<o, n>>] = Absent
        <4>1. Next
          BY <1>3, <3>2 DEF vars, tables
        <4>2. CASE AuthzInsert(o)
          <5>1. Placed(o)
            BY <4>2 DEF AuthzInsert, Placed, ControlOK, OrderSteps
          <5>2. n \in todo[o]
            BY <1>3, <3>2, <4>2 DEF AuthzInsert, TablesOK, AuthzIds
          <5> QED
            BY <4>2, <5>1, <5>2, PlacedStays DEF AuthzInsert, OrderSteps, RowsInv
        <4>3. ASSUME NEW r \in Requests, Authz(r) = <<o, n>>, AuthzValid(r) \/ AuthzInvalid(r)
              PROVE  Placed(o)' /\ n \in call[o].names /\ call'[o] = call[o]
          <5>1. pc[r] \in ProofSteps \cup DenialSteps /\ Order(r) = o /\ call[r].name = n
            BY <4>3 DEF AuthzValid, AuthzInvalid, ProofSteps, DenialSteps, Authz, Order
          <5> QED
            BY <5>1, RowTarget, PlacedStays
        <4> QED
          BY <1>3, <3>2, <4>1, <4>2, <4>3, AuthzWritten
      <3> QED
        BY <3>1, <3>2
    <2> QED
      BY <2>1
  <1>4. ASSUME NEW o \in Requests, NEW n \in Names, NEW t \in Types,
               challenges'[<<o, n, t>>] # None
        PROVE  Placed(o)' /\ t \in Offered(n)
    <2>1. CASE challenges[<<o, n, t>>] # None
      BY <2>1, PlacedStays DEF RowsInv
    <2>2. CASE challenges[<<o, n, t>>] = None
      <3>1. Next
        BY <1>4, <2>2 DEF vars, tables
      <3>2. CASE ChallengeInsert(o) /\ t \in Offered(n)
        <4>1. Placed(o)
          BY <3>2 DEF ChallengeInsert, Placed, ControlOK, OrderSteps
        <4> QED
          BY <3>2, <4>1, PlacedStays
      <3>3. ASSUME NEW r \in Requests, Challenge(r) = <<o, n, t>>, MarkProcessing(r) \/ Settle(r)
            PROVE  Placed(o)' /\ t \in Offered(n)
        <4>1. /\ pc[r] \in {"markProcessing", "settle"} /\ pc[r] \in ChallengeSteps
              /\ Order(r) = o /\ call[r].name = n /\ call[r].type = t
          BY <3>3 DEF MarkProcessing, Settle, ChallengeSteps, Challenge, Order
        <4> QED
          BY <4>1, RowTarget, PlacedStays DEF RowsInv
      <3> QED
        BY <1>4, <2>2, <3>1, <3>2, <3>3, ChallengeWritten
    <2> QED
      BY <2>1, <2>2
  <1> QED
    BY <1>1, <1>2, <1>3, <1>4, TodoStep, OfferedStep DEF RowsInv

\* Where a request that has arrived moves, its handler took a step.
LEMMA StepTaken ==
    ASSUME TypeInv, [Next]_vars, NEW r \in Requests, pc[r] # "idle", pc'[r] # pc[r],
           failures' = failures
    PROVE  RequestStep(r)
  <1> USE DEF TypeInv, TypeOK, RequestsOK
  <1>1. Next
    BY DEF vars
  <1>2. ASSUME NEW x \in Requests, NEW q \in Requests, NEW k \in Calls, Receive(x, q, k)
        PROVE  FALSE
    BY <1>2 DEF Receive, Stop, Goto
  <1>3. ASSUME NEW x \in Requests, Fail(x) PROVE FALSE
    BY <1>3 DEF Fail
  <1>4. ASSUME NEW x \in Requests, RequestStep(x) PROVE x = r
    BY <1>4, HandlerFrame
  <1>5. ~Prune /\ \A o \in Requests : ~Expire(o)
    BY TimeFrame
  <1> QED
    BY <1>1, <1>2, <1>3, <1>4, <1>5 DEF Next

LEMMA FailuresCount ==
    ASSUME TypeInv, [Next]_vars, failures' = 0
    PROVE  failures = 0
  <1>1. CASE UNCHANGED vars
    BY <1>1 DEF vars
  <1>2. ASSUME NEW r \in Requests, Fail(r) PROVE FALSE
    BY <1>2 DEF Fail, TypeInv, TypeOK
  <1>3. ASSUME NEW r \in Requests, RequestStep(r) PROVE UNCHANGED failures
    BY <1>3 DEF RequestStep, OrderInsert, AuthzInsert, ChallengeInsert, ChallengeRead,
                MarkProcessing, Settle, AuthzValid, OrderRead, AuthzList, OrderReady, ChallengeList,
                AuthzInvalid, OrderFailRead, OrderInvalid, FinalizeRead, Sign, Attach, OrderReject
  <1>4. ASSUME NEW r \in Requests, NEW q \in Requests, NEW k \in Calls,
               Receive(r, q, k) \/ Expire(r) \/ Prune
        PROVE  UNCHANGED failures
    BY <1>4 DEF Receive, Expire, Prune
  <1> QED
    BY <1>1, <1>2, <1>3, <1>4 DEF Next, Receive, Expire, Prune

\* A pending order has just been inserted, with nothing under it, or was pending.
LEMMA StillWaits ==
    ASSUME StuckAll, [Next]_vars, NEW o \in Requests, Waits(o)'
    PROVE  \/ /\ \A n \in Names : authzs'[<<o, n>>] = Absent
              /\ \A n \in Names, t \in Types : challenges'[<<o, n, t>>] = None
              /\ call'[o].names \subseteq Names /\ call'[o].names # {}
           \/ Waits(o) /\ Placed(o) /\ call'[o] = call[o]
  <1> USE DEF StuckAll, TypeInv, TypeOK, RequestsOK
  <1>1. CASE orders'[o] = orders[o]
    BY <1>1, PlacedStays DEF Waits, RowsInv
  <1>2. CASE orders'[o] # orders[o]
    <2>1. Next
      BY <1>2 DEF vars, tables
    <2>2. \A r \in Requests : Attached(r).status = "valid"
      BY DEF Attached
    <2>3. OrderInsert(o)
      BY <1>2, <2>1, <2>2, OrderWritten DEF Waits
    <2>4. ~Placed(o) /\ UNCHANGED <<authzs, challenges, call>> /\ call[o].kind = "newOrder"
      BY <2>3 DEF OrderInsert, Placed, ControlOK, OrderSteps
    <2>5. call[o].names \in OrderNames
      BY <2>3, <2>4, CallsTyped DEF OrderInsert, ControlOK
    <2> QED
      BY <2>4, <2>5, AcmeNamesAssumption DEF RowsInv
  <1> QED
    BY <1>1, <1>2

\* A request on its way to make an order ready gets there, or the order is no
\* longer proved or pending.
LEMMA ReadyOnItsWay ==
    ASSUME StuckAll, [Next]_vars, failures' = failures, NEW o \in Requests,
           Waits(o), Waits(o)', AllProved(o), WillReady(o)
    PROVE  WillReady(o)'
  <1> USE DEF StuckAll, TypeInv, TypeOK, RequestsOK
  <1>1. PICK r \in Requests : Order(r) = o /\ pc[r] \in {"orderRead", "authzList", "orderReady"}
    BY DEF WillReady
  <1>2. call'[r] = call[r] /\ Order(r)' = o
    BY <1>1, RequestStands DEF Order
  <1>3. CASE pc'[r] = pc[r]
    BY <1>1, <1>2, <1>3 DEF WillReady
  <1>4. CASE pc'[r] # pc[r]
    <2>1. RequestStep(r)
      BY <1>1, <1>4, StepTaken
    <2>2. CASE OrderRead(r)
      <3>1. pc'[r] = "authzList"
        BY <1>1, <2>2 DEF OrderRead, Goto, Waits
      <3> QED
        BY <1>2, <3>1 DEF WillReady
    <2>3. CASE AuthzList(r)
      <3>1. AllValid(o)
        BY DEF AllProved, AllValid, RowsInv
      <3>2. pc'[r] = "orderReady"
        BY <1>1, <2>3, <3>1 DEF AuthzList, Goto
      <3> QED
        BY <1>2, <3>2 DEF WillReady
    <2>4. CASE OrderReady(r)
      <3>1. orders'[o].status = "ready"
        BY <1>1, <2>4 DEF OrderReady, TablesOK
      <3> QED
        BY <3>1 DEF Waits
    <2> QED
      BY <1>1, <2>1, <2>2, <2>3, <2>4
         DEF RequestStep, OrderInsert, AuthzInsert, ChallengeInsert, ChallengeRead, MarkProcessing,
             Settle, AuthzValid, ChallengeList, AuthzInvalid, OrderFailRead, OrderInvalid,
             FinalizeRead, Sign, Attach, OrderReject
  <1> QED
    BY <1>3, <1>4

\* A request on its way to reject an order gets there, or the order is no
\* longer pending or has a challenge that can still succeed.
LEMMA RejectOnItsWay ==
    ASSUME StuckAll, [Next]_vars, failures' = failures, NEW o \in Requests, NEW n \in Names,
           Waits(o), Waits(o)', NoneLeft(o, n), WillReject(o, n)
    PROVE  WillReject(o, n)'
  <1> USE DEF StuckAll, TypeInv, TypeOK, RequestsOK
  <1>1. PICK r \in Requests :
          /\ Order(r) = o
          /\ \/ pc[r] = "challengeList" /\ call[r].name = n
             \/ pc[r] \in {"authzInvalid", "orderFailRead", "orderInvalid"}
    BY DEF WillReject
  <1>2. call'[r] = call[r] /\ Order(r)' = o
    BY <1>1, RequestStands DEF Order
  <1>3. CASE pc'[r] = pc[r]
    BY <1>1, <1>2, <1>3 DEF WillReject
  <1>4. CASE pc'[r] # pc[r]
    <2>1. RequestStep(r)
      BY <1>1, <1>4, StepTaken
    <2>2. CASE ChallengeList(r)
      <3>1. Exhausted(o, n)
        BY DEF NoneLeft, Exhausted, RowsInv
      <3>2. pc'[r] = "authzInvalid"
        BY <1>1, <2>2, <3>1 DEF ChallengeList, Goto
      <3> QED
        BY <1>2, <3>2 DEF WillReject
    <2>3. CASE AuthzInvalid(r)
      <3>1. pc'[r] = "orderFailRead"
        BY <2>3 DEF AuthzInvalid, Goto
      <3> QED
        BY <1>2, <3>1 DEF WillReject
    <2>4. CASE OrderFailRead(r)
      <3>1. pc'[r] = "orderInvalid"
        BY <1>1, <2>4 DEF OrderFailRead, Goto, Waits
      <3> QED
        BY <1>2, <3>1 DEF WillReject
    <2>5. CASE OrderInvalid(r)
      <3>1. orders'[o].status = "invalid"
        BY <1>1, <2>5 DEF OrderInvalid, TablesOK
      <3> QED
        BY <3>1 DEF Waits
    <2> QED
      BY <1>1, <2>1, <2>2, <2>3, <2>4, <2>5
         DEF RequestStep, OrderInsert, AuthzInsert, ChallengeInsert, ChallengeRead, MarkProcessing,
             Settle, AuthzValid, OrderRead, AuthzList, OrderReady, FinalizeRead, Sign, Attach,
             OrderReject
  <1> QED
    BY <1>3, <1>4

LEMMA StuckStep == StuckAll /\ StuckInv /\ [Next]_vars => StuckInv'
  <1> SUFFICES ASSUME StuckAll, StuckInv, [Next]_vars, failures' = 0,
                      NEW o \in Requests, Waits(o)'
               PROVE  /\ AllProved(o)' => WillReady(o)'
                      /\ \A n \in call'[o].names : NoneLeft(o, n)' => WillReject(o, n)'
    BY DEF StuckInv
  <1> USE DEF StuckAll, TypeInv, TypeOK, RequestsOK
  <1>1. failures = 0
    BY FailuresCount
  <1>2. CASE /\ \A n \in Names : authzs'[<<o, n>>] = Absent
             /\ \A n \in Names, t \in Types : challenges'[<<o, n, t>>] = None
             /\ call'[o].names \subseteq Names /\ call'[o].names # {}
    <2>1. ~AllProved(o)'
      BY <1>2 DEF AllProved, Absent
    <2>2. \A n \in Names : ~NoneLeft(o, n)'
      <3>1. \A n \in Names : Offered(n) \subseteq Types
        BY DEF Offered, Types
      <3> QED
        BY <1>2, <3>1 DEF NoneLeft
    <2> QED
      BY <1>2, <2>1, <2>2
  <1>3. CASE Waits(o) /\ Placed(o) /\ call'[o] = call[o]
    <2>n. call[o].names \subseteq Names
      BY <1>3, CallsTyped DEF Placed, ControlOK
    <2>1. ASSUME AllProved(o)' PROVE WillReady(o)'
      <3>1. CASE AllProved(o)
        BY <1>1, <1>3, <3>1, ReadyOnItsWay DEF StuckInv
      <3>2. CASE ~AllProved(o)
        <4>1. PICK n \in call[o].names : authzs[<<o, n>>] # "valid"
          BY <3>2 DEF AllProved
        <4>2. authzs'[<<o, n>>] = "valid"
          BY <1>3, <2>1, <4>1 DEF AllProved
        <4>3. Next
          BY <4>1, <4>2 DEF vars, tables
        <4>4. PICK r \in Requests : Authz(r) = <<o, n>> /\ AuthzValid(r)
          BY <2>n, <4>1, <4>2, <4>3, AuthzWritten DEF Absent
        <4>5. Order(r)' = o /\ pc'[r] = "orderRead"
          BY <4>4 DEF AuthzValid, Authz, Order, Goto
        <4> QED
          BY <4>5 DEF WillReady
      <3> QED
        BY <3>1, <3>2
    <2>2. ASSUME NEW n \in call[o].names, NoneLeft(o, n)' PROVE WillReject(o, n)'
      <3>1. CASE NoneLeft(o, n)
        BY <1>1, <1>3, <2>n, <3>1, RejectOnItsWay DEF StuckInv
      <3>2. CASE ~NoneLeft(o, n)
        <4>1. PICK t \in Offered(n) : \/ challenges[<<o, n, t>>] = None
                                      \/ challenges[<<o, n, t>>].status # "invalid"
          BY <2>2, <3>2 DEF NoneLeft
        <4>2. challenges'[<<o, n, t>>] # None /\ challenges'[<<o, n, t>>].status = "invalid"
          BY <2>2 DEF NoneLeft
        <4>3. Next
          BY <4>1, <4>2 DEF vars, tables
        <4>4. t \in Types /\ n \in Names
          BY <2>n DEF Offered, Types
        <4>5. PICK r \in Requests :
                Challenge(r) = <<o, n, t>> /\ Settle(r) /\ Goto(r, "challengeList")
          BY <4>1, <4>2, <4>3, <4>4, ChallengeWritten
        <4>6. Order(r)' = o /\ call'[r].name = n /\ pc'[r] = "challengeList"
          BY <4>5 DEF Settle, Challenge, Order, Goto
        <4> QED
          BY <4>6 DEF WillReject
      <3> QED
        BY <3>1, <3>2
    <2> QED
      BY <1>3, <2>1, <2>2
  <1> QED
    BY <1>2, <1>3, StillWaits

\* However the validations of its names overlap, with each other and with the
\* prune job, an order is not left pending once all of them have succeeded, or
\* one has failed for good: the request that decided it moves it before it
\* answers.  (One that fails on the way leaves it so: README.md, section 6.)
THEOREM OrdersMoveOn == Spec => []NoStuckOrder
  <1>1. Init => RowsInv /\ StuckInv
    BY DEF Init, RowsInv, StuckInv, Waits, OrderSteps, Absent, AuthzIds, ChallengeIds
  <1>2. TypeInv /\ RequestInv /\ OwnershipInv /\ RowsInv /\ [Next]_vars => RowsInv'
    BY RowsStep DEF StuckAll
  <1>3. /\ TypeInv /\ RequestInv /\ OwnershipInv /\ RowsInv /\ StuckInv /\ [Next]_vars
        => StuckInv'
    BY StuckStep DEF StuckAll
  <1>4. StuckInv => NoStuckOrder
    <2> SUFFICES ASSUME StuckInv, failures = 0, \A r \in Requests : pc[r] \in Resting,
                        NEW o \in Requests, Waits(o), Decided(o)
                 PROVE  FALSE
      BY DEF NoStuckOrder, Waits
    <2>1. ~WillReady(o) /\ \A n : ~WillReject(o, n)
      BY DEF WillReady, WillReject, Resting
    <2> QED
      BY <2>1 DEF StuckInv, Decided, AllProved, NoneLeft
  <1> QED
    BY OwnershipAlways, <1>1, <1>2, <1>3, <1>4, PTL DEF Spec

=============================================================================
