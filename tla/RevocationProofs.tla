-------------------------- MODULE RevocationProofs --------------------------
(* Theorems about Revocation, for every value of its constants.            *)
EXTENDS Revocation, TLAPS

\* What the arguments of a call are.
LEMMA CallsTyped ==
    \A k \in Calls :
       /\ k.kind \in RevokeKinds \cup CertKinds \cup CAKinds
       /\ k.certs \in SUBSET Certs
       /\ k.kind \in RevokeKinds => k.reason \in Reasons
       /\ k.pass \in BOOLEAN
  BY FlagsAssumption DEF Calls, RevokeKinds, CertKinds, CAKinds

\* Where a process is tells what it is doing: which calls reach which steps,
\* and that a step on a certificate has one.
ControlOK ==
    \A p \in Procs :
       /\ pc[p] \in RevokeSteps => p \in Requests /\ call[p] \in Calls
                                     /\ call[p].kind \in RevokeKinds
       /\ pc[p] \in (RevokeSteps \ {"next"}) \cup ReleaseSteps \cup UpdateSteps \cup {"delete"}
            => cur[p] \in Certs
       /\ pc[p] \in ReleaseSteps \cup UpdateSteps \cup CASteps \cup {"delete", "crlForRead"}
            => p \in Requests /\ call[p] \in Calls /\ call[p].kind \notin RevokeKinds
       /\ pc[p] = "updateSave" => seen[p][cur[p]] # Absent
       /\ pc[p] \in ScanSteps => p \in Schedulers

TypeInv == TypeOK /\ ControlOK

LEMMA FirstTyped == FirstCA \in Authorities /\ Unseen \in [Certs -> Statuses \cup {Absent}]
  BY DEF FirstCA, Authorities, Ages, Unseen, Entries

LEMMA InitTyped == Init => TypeInv
  <1> SUFFICES ASSUME Init PROVE TypeInv
    OBVIOUS
  <1>1. TablesOK /\ ClocksOK
    BY FirstTyped DEF Init, TablesOK, ClocksOK, Statuses, Ages
  <1>2. MemoryOK
    BY FirstTyped DEF Init, MemoryOK
  <1>3. ProcsOK
    BY DEF Init, ProcsOK, Steps, Resting
  <1>4. ControlOK
    BY DEF Init, ControlOK, RevokeSteps, ReleaseSteps, UpdateSteps, CASteps, ScanSteps
  <1> QED
    BY <1>1, <1>2, <1>3, <1>4 DEF TypeInv, TypeOK, Init

\* A handler that returns leaves a well-typed, idle process.
LEMMA StopTyped ==
    ASSUME TypeInv, NEW p \in Procs, NEW a \in {"ok", "error"}, Stop(p, a), UNCHANGED call
    PROVE  MemoryOK' /\ ProcsOK' /\ ControlOK'
  <1>1. MemoryOK'
    BY FirstTyped DEF Stop, TypeInv, TypeOK, MemoryOK
  <1>2. ProcsOK'
    BY DEF Stop, Goto, TypeInv, TypeOK, ProcsOK, Steps, Resting
  <1>3. ControlOK'
    BY DEF Stop, Goto, TypeInv, TypeOK, ProcsOK, MemoryOK, ControlOK, RevokeSteps, ReleaseSteps,
           UpdateSteps, CASteps, ScanSteps
  <1> QED
    BY <1>1, <1>2, <1>3

\* So does a handler that goes on to publish the list.
LEMMA PublishTyped ==
    ASSUME TypeInv, NEW p \in Requests, Publish(p), UNCHANGED call
    PROVE  MemoryOK' /\ ProcsOK' /\ ControlOK'
  <1> p \in Procs
    BY DEF Procs
  <1>1. CASE CanSign(p)
    <2>1. MemoryOK'
      BY <1>1 DEF Publish, TypeInv, TypeOK, MemoryOK, memVars
    <2>2. ProcsOK'
      BY <1>1 DEF Publish, Goto, TypeInv, TypeOK, ProcsOK, Steps, CRLSteps
    <2>3. ControlOK'
      BY <1>1 DEF Publish, Goto, TypeInv, TypeOK, ProcsOK, ControlOK, memVars, RevokeSteps,
                  ReleaseSteps, UpdateSteps, CASteps, ScanSteps
    <2> QED
      BY <2>1, <2>2, <2>3
  <1>2. CASE ~CanSign(p)
    BY <1>2, StopTyped DEF Publish
  <1> QED
    BY <1>1, <1>2

LEMMA RefuseTyped ==
    ASSUME TypeInv, NEW p \in Requests, pc[p] \in RevokeSteps, Refuse(p), UNCHANGED call
    PROVE  MemoryOK' /\ ProcsOK' /\ ControlOK'
  <1> p \in Procs
    BY DEF Procs
  <1>1. CASE Bulk(p)
    <2>1. MemoryOK'
      BY <1>1 DEF Refuse, TypeInv, TypeOK, MemoryOK, memVars
    <2>2. ProcsOK'
      BY <1>1 DEF Refuse, Goto, TypeInv, TypeOK, ProcsOK, Steps, RevokeSteps
    <2>3. ControlOK'
      BY <1>1 DEF Refuse, Goto, TypeInv, TypeOK, ProcsOK, ControlOK, memVars, RevokeSteps,
                  ReleaseSteps, UpdateSteps, CASteps, ScanSteps
    <2> QED
      BY <2>1, <2>2, <2>3
  <1>2. CASE ~Bulk(p)
    BY <1>2, StopTyped DEF Refuse
  <1> QED
    BY <1>1, <1>2

-----------------------------------------------------------------------------
(* Type correctness and control: every action preserves TypeInv            *)

LEMMA BeginTyped ==
    ASSUME TypeInv, NEW r \in Requests, NEW k \in Calls, Begin(r, k)
    PROVE  TypeInv'
  <1> USE DEF TypeInv, TypeOK, Begin
  <1> r \in Procs
    BY DEF Procs
  <1>k. /\ k.kind \in RevokeKinds \cup CertKinds \cup CAKinds
        /\ k.certs \in SUBSET Certs
    BY CallsTyped
  <1>1. TablesOK' /\ ClocksOK' /\ failures' \in Nat
    BY DEF TablesOK, ClocksOK, dbVars, clockVars
  <1>2. PICK c \in (IF k.kind \in CertKinds THEN k.certs ELSE {None}) :
             cur' = [cur EXCEPT ![r] = c]
    OBVIOUS
  <1>3. c \in Certs \cup {None} /\ (k.kind \in CertKinds => c \in Certs)
    BY <1>k
  <1>4. MemoryOK'
    BY <1>k, <1>2, <1>3 DEF MemoryOK
  <1>5. /\ k.kind \in RevokeKinds => FirstStep[k.kind] = "next"
        /\ k.kind \in CertKinds => FirstStep[k.kind] \in {"releaseRead", "updateRead", "delete"}
        /\ k.kind \in CAKinds => FirstStep[k.kind] \in {"caRead", "crlForRead", "crlRow"}
    BY DEF FirstStep, RevokeKinds, CertKinds, CAKinds
  <1>6. ProcsOK'
    BY <1>k, <1>5 DEF ProcsOK, Goto, Steps, RevokeSteps, ReleaseSteps, UpdateSteps, CASteps, CRLSteps
  <1>7. ControlOK'
    <2>1. ASSUME NEW p \in Procs, p # r
          PROVE  pc'[p] = pc[p] /\ call'[p] = call[p] /\ cur'[p] = cur[p] /\ seen'[p] = seen[p]
      BY <2>1, <1>2 DEF Goto, ProcsOK, MemoryOK
    <2>2. pc'[r] = FirstStep[k.kind] /\ call'[r] = k /\ cur'[r] = c
      BY <1>2 DEF Goto, ProcsOK, MemoryOK
    <2>3. RevokeKinds \cap (CertKinds \cup CAKinds) = {} /\ CertKinds \cap CAKinds = {}
      BY DEF RevokeKinds, CertKinds, CAKinds
    <2> QED
      BY <1>k, <1>3, <1>5, <2>1, <2>2, <2>3
         DEF ControlOK, RevokeSteps, ReleaseSteps, UpdateSteps, CASteps, ScanSteps
  <1> QED
    BY <1>1, <1>4, <1>6, <1>7

LEMMA RevokeTyped ==
    ASSUME TypeInv, NEW r \in Requests,
           \/ RevokeRead(r) \/ RevokeFindHold(r) \/ RevokeDropHold(r)
           \/ RevokeInsert(r) \/ RevokeSave(r) \/ BulkPublish(r)
    PROVE  TypeInv'
  <1> r \in Procs
    BY DEF Procs
  <1>t. TablesOK /\ ClocksOK /\ MemoryOK /\ ProcsOK /\ failures \in Nat /\ ControlOK
    BY DEF TypeInv, TypeOK
  <1>q. ASSUME TablesOK', UNCHANGED <<clockVars, failures>>, MemoryOK', ProcsOK', ControlOK'
        PROVE  TypeInv'
    BY <1>q, <1>t DEF TypeInv, TypeOK, ClocksOK, clockVars
  <1>s. ASSUME NEW l \in RevokeSteps, Goto(r, l), pc[r] \in RevokeSteps,
               UNCHANGED <<call, result, seen>>, MemoryOK',
               cur'[r] \in Certs, \A p \in Procs \ {r} : cur'[p] = cur[p]
        PROVE  ProcsOK' /\ ControlOK'
    <2>1. ProcsOK'
      BY <1>s, <1>t DEF Goto, ProcsOK, Steps
    <2>2. ControlOK'
      BY <1>s, <1>t DEF Goto, ProcsOK, ControlOK, RevokeSteps, ReleaseSteps, UpdateSteps,
                        CASteps, ScanSteps
    <2> QED
      BY <2>1, <2>2
  <1>1. CASE RevokeRead(r)
    <2>1. PICK c \in todo[r] :
            IF AfterRead(status[c]) = "next" /\ ~Bulk(r)
              THEN Stop(r, "error")
              ELSE /\ todo' = [todo EXCEPT ![r] = @ \ {c}]
                   /\ cur' = [cur EXCEPT ![r] = c]
                   /\ Goto(r, AfterRead(status[c]))
                   /\ found' = [found EXCEPT ![r] = None]
                   /\ UNCHANGED <<result, seen, caSeen, entries>>
      BY <1>1 DEF RevokeRead
    <2>2. c \in Certs /\ pc[r] \in RevokeSteps
      BY <1>1, <1>t, <2>1 DEF MemoryOK, RevokeRead, RevokeSteps
    <2>3. TablesOK' /\ UNCHANGED <<clockVars, failures, call>>
      BY <1>1, <1>t DEF RevokeRead, TablesOK, dbVars
    <2>4. CASE Stop(r, "error")
      BY <2>3, <2>4, <1>q, StopTyped
    <2>5. CASE ~Stop(r, "error")
      <3>1. /\ todo' = [todo EXCEPT ![r] = @ \ {c}]
            /\ cur' = [cur EXCEPT ![r] = c]
            /\ Goto(r, AfterRead(status[c]))
            /\ found' = [found EXCEPT ![r] = None]
            /\ UNCHANGED <<result, seen, caSeen, entries>>
        BY <2>1, <2>5
      <3>2. todo' \in [Procs -> SUBSET Certs]
        BY <1>t, <3>1 DEF MemoryOK
      <3>3. cur' \in [Procs -> Certs \cup {None}] /\ cur'[r] \in Certs
        BY <1>t, <2>2, <3>1 DEF MemoryOK
      <3>4. \A p \in Procs \ {r} : cur'[p] = cur[p]
        BY <1>t, <3>1 DEF MemoryOK
      <3>5. MemoryOK'
        BY <1>t, <3>1, <3>2, <3>3 DEF MemoryOK
      <3>6. AfterRead(status[c]) \in RevokeSteps
        BY DEF AfterRead, RevokeSteps
      <3> QED
        BY <1>q, <1>s, <2>2, <2>3, <3>1, <3>3, <3>4, <3>5, <3>6
    <2> QED
      BY <2>4, <2>5
  <1>2. CASE RevokeFindHold(r)
    <2>1. pc[r] \in RevokeSteps /\ cur[r] \in Certs
      BY <1>2, <1>t DEF RevokeFindHold, RevokeSteps, ControlOK
    <2>2. TablesOK' /\ UNCHANGED <<clockVars, failures, call, result, seen, cur>>
      BY <1>2, <1>t DEF RevokeFindHold, TablesOK, dbVars
    <2>3. MemoryOK'
      BY <1>2, <1>t, <2>1 DEF RevokeFindHold, MemoryOK, TablesOK, Revocations
    <2>4. \E l \in RevokeSteps : Goto(r, l)
      BY <1>2 DEF RevokeFindHold, RevokeSteps
    <2> QED
      BY <1>q, <1>s, <2>1, <2>2, <2>3, <2>4
  <1>3. CASE RevokeDropHold(r)
    <2>1. pc[r] \in RevokeSteps /\ cur[r] \in Certs
      BY <1>3, <1>t DEF RevokeDropHold, RevokeSteps, ControlOK
    <2>2. TablesOK' /\ UNCHANGED <<clockVars, failures, call>>
      BY <1>3, <1>t DEF RevokeDropHold, TablesOK
    <2>3. CASE Refuse(r)
      BY <1>q, <2>1, <2>2, <2>3, RefuseTyped
    <2>4. CASE Goto(r, "insert") /\ UNCHANGED <<result, memVars>>
      <3>1. MemoryOK' /\ UNCHANGED <<cur, seen>>
        BY <2>4, <1>t DEF MemoryOK, memVars
      <3> QED
        BY <1>q, <1>s, <2>1, <2>2, <2>4, <3>1 DEF RevokeSteps
    <2> QED
      BY <1>3, <2>3, <2>4 DEF RevokeDropHold
  <1>4. CASE RevokeInsert(r)
    <2>1. pc[r] \in RevokeSteps /\ cur[r] \in Certs /\ call[r].reason \in Reasons
      BY <1>4, <1>t, CallsTyped DEF RevokeInsert, RevokeSteps, ControlOK
    <2>2. NewRevocation(r) \in Revocations
      BY <2>1 DEF NewRevocation, Revocations
    <2>3. TablesOK' /\ UNCHANGED <<clockVars, failures, call>>
      BY <1>4, <1>t, <2>2 DEF RevokeInsert, TablesOK
    <2>4. CASE Refuse(r)
      BY <1>q, <2>1, <2>3, <2>4, RefuseTyped
    <2>5. CASE Goto(r, "saveRevoked") /\ UNCHANGED <<result, memVars>>
      <3>1. MemoryOK' /\ UNCHANGED <<cur, seen>>
        BY <2>5, <1>t DEF MemoryOK, memVars
      <3> QED
        BY <1>q, <1>s, <2>1, <2>3, <2>5, <3>1 DEF RevokeSteps
    <2> QED
      BY <1>4, <2>4, <2>5 DEF RevokeInsert
  <1>5. CASE RevokeSave(r)
    <2>1. TablesOK' /\ UNCHANGED <<clockVars, failures, call>>
      BY <1>5, <1>t DEF RevokeSave, TablesOK, Statuses
    <2>2. CASE Publish(r)
      BY <1>q, <2>1, <2>2, PublishTyped
    <2>3. CASE Goto(r, "next") /\ result' = [result EXCEPT ![r] = "ok"] /\ UNCHANGED memVars
      <3>1. MemoryOK'
        BY <2>3, <1>t DEF MemoryOK, memVars
      <3>2. ProcsOK'
        BY <2>1, <2>3, <1>t DEF Goto, ProcsOK, Steps, RevokeSteps
      <3>3. ControlOK'
        BY <1>5, <2>1, <2>3, <1>t DEF RevokeSave, Goto, ProcsOK, ControlOK, memVars, RevokeSteps,
           ReleaseSteps, UpdateSteps, CASteps, ScanSteps
      <3> QED
        BY <1>q, <2>1, <3>1, <3>2, <3>3
    <2> QED
      BY <1>5, <2>2, <2>3 DEF RevokeSave
  <1>6. CASE BulkPublish(r)
    <2>1. TablesOK' /\ UNCHANGED <<clockVars, failures, call>>
      BY <1>6, <1>t DEF BulkPublish, TablesOK, dbVars
    <2> QED
      BY <1>6, <1>q, <2>1, PublishTyped, StopTyped DEF BulkPublish
  <1> QED
    BY <1>1, <1>2, <1>3, <1>4, <1>5, <1>6

\* A process that goes on from one step to the next of the same handler.
LEMMA AdvanceTyped ==
    ASSUME TypeInv, NEW p \in Procs, NEW l \in Steps \ RevokeSteps, Goto(p, l),
           UNCHANGED <<call, result, cur>>,
           \A q \in Procs \ {p} : seen'[q] = seen[q],
           l \in ReleaseSteps \cup UpdateSteps =>
             /\ p \in Requests /\ call[p] \in Calls /\ call[p].kind \notin RevokeKinds
             /\ cur[p] \in Certs,
           l \in CASteps => p \in Requests /\ call[p] \in Calls /\ call[p].kind \notin RevokeKinds,
           l \notin {"delete", "crlForRead"},
           l = "updateSave" => seen'[p][cur[p]] # Absent,
           l \in ScanSteps => p \in Schedulers
    PROVE  ProcsOK' /\ ControlOK'
  <1>1. ProcsOK'
    BY DEF Goto, TypeInv, TypeOK, ProcsOK
  <1>2. ASSUME NEW q \in Procs, q # p
        PROVE  pc'[q] = pc[q] /\ call'[q] = call[q] /\ cur'[q] = cur[q] /\ seen'[q] = seen[q]
    BY <1>2 DEF Goto, TypeInv, TypeOK, ProcsOK
  <1>3. pc'[p] = l
    BY DEF Goto, TypeInv, TypeOK, ProcsOK
  <1>4. ControlOK'
    BY <1>2, <1>3 DEF TypeInv, ControlOK, RevokeSteps, ReleaseSteps, UpdateSteps, CASteps, ScanSteps
  <1> QED
    BY <1>1, <1>4

LEMMA ReleaseTyped ==
    ASSUME TypeInv, NEW r \in Requests,
           ReleaseRead(r) \/ ReleaseFind(r) \/ ReleaseDrop(r) \/ ReleaseSave(r)
    PROVE  TypeInv'
  <1> r \in Procs
    BY DEF Procs
  <1>t. TablesOK /\ ClocksOK /\ MemoryOK /\ ProcsOK /\ failures \in Nat /\ ControlOK
    BY DEF TypeInv, TypeOK
  <1>c. /\ pc[r] \in ReleaseSteps /\ cur[r] \in Certs
        /\ call[r] \in Calls /\ call[r].kind \notin RevokeKinds
    BY <1>t DEF ControlOK, ReleaseSteps, ReleaseRead, ReleaseFind, ReleaseDrop, ReleaseSave
  <1>1. TablesOK' /\ UNCHANGED <<clockVars, failures, call>>
    BY <1>t, <1>c DEF ReleaseRead, ReleaseFind, ReleaseDrop, ReleaseSave, TablesOK, dbVars, ClocksOK,
                Statuses
  <1>q. ASSUME MemoryOK', ProcsOK', ControlOK' PROVE TypeInv'
    BY <1>q, <1>t, <1>1 DEF TypeInv, TypeOK, ClocksOK, clockVars
  <1>2. CASE Stop(r, "error")
    BY <1>q, <1>1, <1>2, StopTyped
  <1>3. CASE Publish(r)
    BY <1>q, <1>1, <1>3, PublishTyped
  <1>4. CASE /\ \E l \in ReleaseSteps : Goto(r, l)
             /\ MemoryOK' /\ UNCHANGED <<result, cur, seen>>
    BY <1>q, <1>1, <1>4, <1>c, AdvanceTyped
       DEF Steps, RevokeSteps, ReleaseSteps, UpdateSteps, CASteps, ScanSteps
  <1>5. CASE ReleaseRead(r)
    <2>1. CASE Goto(r, "releaseFind") /\ UNCHANGED <<result, memVars>>
      BY <1>4, <1>t, <2>1 DEF memVars, MemoryOK, ReleaseSteps
    <2> QED
      BY <1>2, <1>5, <2>1 DEF ReleaseRead
  <1>6. CASE ReleaseFind(r)
    <2>1. CASE revs[cur[r]] # None
      <3>1. MemoryOK' /\ Goto(r, "releaseDrop") /\ UNCHANGED <<result, cur, seen>>
        BY <1>6, <1>t, <1>c, <2>1 DEF ReleaseFind, MemoryOK, TablesOK, Revocations
      <3> QED
        BY <1>4, <3>1 DEF ReleaseSteps
    <2> QED
      BY <1>2, <1>6, <2>1 DEF ReleaseFind
  <1>7. CASE ReleaseDrop(r)
    <2>1. CASE Goto(r, "releaseSave") /\ UNCHANGED <<result, memVars>>
      BY <1>4, <1>t, <2>1 DEF memVars, MemoryOK, ReleaseSteps
    <2> QED
      BY <1>2, <1>7, <2>1 DEF ReleaseDrop
  <1> QED
    BY <1>3, <1>5, <1>6, <1>7 DEF ReleaseSave

LEMMA UpdateTyped ==
    ASSUME TypeInv, NEW r \in Requests,
           UpdateRead(r) \/ UpdateSave(r) \/ DeleteCertificate(r)
    PROVE  TypeInv'
  <1> r \in Procs
    BY DEF Procs
  <1>t. TablesOK /\ ClocksOK /\ MemoryOK /\ ProcsOK /\ failures \in Nat /\ ControlOK
    BY DEF TypeInv, TypeOK
  <1>c. /\ cur[r] \in Certs /\ call[r] \in Calls /\ call[r].kind \notin RevokeKinds
    BY <1>t DEF ControlOK, UpdateSteps, UpdateRead, UpdateSave, DeleteCertificate
  <1>1. TablesOK' /\ UNCHANGED <<clockVars, failures, call>>
    <2>1. CASE UpdateRead(r)
      BY <1>t, <2>1 DEF UpdateRead, TablesOK, dbVars
    <2>2. CASE UpdateSave(r)
      <3>1. seen[r][cur[r]] \in Statuses \cup {Absent}
        BY <1>t, <1>c DEF MemoryOK
      <3> QED
        BY <1>t, <2>2, <3>1 DEF UpdateSave, TablesOK
    <2>3. CASE DeleteCertificate(r)
      BY <1>t, <1>c, <2>3 DEF DeleteCertificate, TablesOK
    <2> QED
      BY <2>1, <2>2, <2>3
  <1>q. ASSUME MemoryOK', ProcsOK', ControlOK' PROVE TypeInv'
    BY <1>q, <1>t, <1>1 DEF TypeInv, TypeOK, ClocksOK, clockVars
  <1>2. CASE UpdateRead(r)
    <2>1. CASE status[cur[r]] # Absent
      <3>1. /\ MemoryOK' /\ Goto(r, "updateSave") /\ UNCHANGED <<result, cur>>
            /\ seen'[r][cur[r]] # Absent /\ \A q \in Procs \ {r} : seen'[q] = seen[q]
        <4>1. seen \in [Procs -> [Certs -> Statuses \cup {Absent}]]
              /\ status[cur[r]] \in Statuses \cup {Absent}
          BY <1>t, <1>c DEF MemoryOK, TablesOK
        <4>2. seen' = [seen EXCEPT ![r] = [seen[r] EXCEPT ![cur[r]] = status[cur[r]]]]
          BY <1>2, <2>1, <4>1 DEF UpdateRead
        <4>3. /\ seen' \in [Procs -> [Certs -> Statuses \cup {Absent}]]
              /\ seen'[r][cur[r]] = status[cur[r]]
              /\ \A q \in Procs \ {r} : seen'[q] = seen[q]
          BY <1>c, <4>1, <4>2
        <4> QED
          BY <1>t, <1>2, <2>1, <4>3 DEF UpdateRead, MemoryOK
      <3> QED
        BY <1>q, <1>1, <1>c, <3>1, AdvanceTyped
           DEF Steps, RevokeSteps, ReleaseSteps, UpdateSteps, CASteps, ScanSteps
    <2>2. CASE Stop(r, "error")
      BY <1>q, <1>1, <2>2, StopTyped
    <2> QED
      BY <1>2, <2>1, <2>2 DEF UpdateRead
  <1>3. CASE UpdateSave(r) \/ DeleteCertificate(r)
    <2>1. \E a \in {"ok", "error"} : Stop(r, a)
      BY <1>3 DEF UpdateSave, DeleteCertificate
    <2> QED
      BY <1>q, <1>1, <2>1, StopTyped
  <1> QED
    BY <1>2, <1>3

\* The rows of the authority a process reads and writes are authority rows.
LEMMA AuthorityTyped ==
    ASSUME TypeInv, NEW r \in Requests, CARead(r) \/ CASave(r) \/ CRLForRead(r)
    PROVE  TypeInv'
  <1> r \in Procs
    BY DEF Procs
  <1>t. TablesOK /\ ClocksOK /\ MemoryOK /\ ProcsOK /\ failures \in Nat /\ ControlOK
    BY DEF TypeInv, TypeOK
  <1>c. call[r] \in Calls /\ call[r].kind \notin RevokeKinds
    BY <1>t DEF ControlOK, CASteps, CARead, CASave, CRLForRead
  <1>0. caSeen[r] \in Authorities /\ ca \in Authorities
    BY <1>t DEF MemoryOK, TablesOK
  <1>1. TablesOK' /\ UNCHANGED <<clockVars, failures, call>>
    <2>1. CASE CASave(r)
      <3>1. ca' \in Authorities
        <4>3. Renewed(caSeen[r]) \in Authorities
          BY <1>0 DEF Renewed, Authorities, Ages
        <4> QED
          BY <1>0, <2>1, <4>3 DEF CASave
      <3> QED
        BY <1>t, <2>1, <3>1 DEF CASave, TablesOK
    <2> QED
      BY <1>t, <2>1 DEF CARead, CRLForRead, TablesOK, dbVars
  <1>q. ASSUME MemoryOK', ProcsOK', ControlOK' PROVE TypeInv'
    BY <1>q, <1>t, <1>1 DEF TypeInv, TypeOK, ClocksOK, clockVars
  <1>2. ASSUME NEW a \in {"ok", "error"}, Stop(r, a) PROVE TypeInv'
    BY <1>q, <1>1, <1>2, StopTyped
  <1>3. CASE CARead(r)
    <2>1. CASE Stop(r, "error")
      BY <1>2, <2>1
    <2>2. CASE ~Stop(r, "error")
      <3>1. MemoryOK' /\ Goto(r, "caSave") /\ UNCHANGED <<result, cur, seen>>
        BY <1>t, <1>0, <1>3, <2>2 DEF CARead, MemoryOK
      <3> QED
        BY <1>q, <1>1, <1>c, <3>1, AdvanceTyped
           DEF Steps, RevokeSteps, ReleaseSteps, UpdateSteps, CASteps, ScanSteps
    <2> QED
      BY <2>1, <2>2
  <1>4. CASE CASave(r)
    BY <1>2, <1>4 DEF CASave
  <1>5. CASE CRLForRead(r)
    <2>1. CASE Stop(r, "ok") \/ Stop(r, "error")
      BY <1>2, <2>1
    <2>2. CASE Goto(r, "crlRow") /\ UNCHANGED <<result, memVars>>
      <3>1. MemoryOK' /\ UNCHANGED <<cur, seen>>
        BY <1>t, <2>2 DEF MemoryOK, memVars
      <3> QED
        BY <1>q, <1>1, <1>c, <2>2, <3>1, AdvanceTyped
           DEF Steps, RevokeSteps, ReleaseSteps, UpdateSteps, CASteps, CRLSteps, ScanSteps
    <2>3. ca.number \in Nat
      BY <1>0 DEF Authorities
    <2>4. Stop(r, "ok") \/ Stop(r, "error") \/ (Goto(r, "crlRow") /\ UNCHANGED <<result, memVars>>)
      BY <1>5, <2>3 DEF CRLForRead
    <2> QED
      BY <2>1, <2>2, <2>4
  <1> QED
    BY <1>3, <1>4, <1>5

LEMMA CRLTyped ==
    ASSUME TypeInv, NEW p \in Procs, CRLStep(p)
    PROVE  TypeInv'
  <1>t. TablesOK /\ ClocksOK /\ MemoryOK /\ ProcsOK /\ failures \in Nat /\ ControlOK
    BY DEF TypeInv, TypeOK
  <1>0. caSeen[p] \in Authorities /\ ca \in Authorities /\ entries[p] \in SUBSET Entries
    BY <1>t DEF MemoryOK, TablesOK
  <1>1. TablesOK' /\ UNCHANGED <<clockVars, failures, call>>
    <2>1. CASE CRLSave(p)
      <3>1. ca' \in Authorities
        BY <1>0, <2>1 DEF CRLSave, Published, Authorities
      <3> QED
        BY <1>t, <2>1, <3>1 DEF CRLSave, TablesOK
    <2> QED
      BY <1>t, <2>1 DEF CRLStep, CRLRow, CRLRevocations, TablesOK, dbVars
  <1>q. ASSUME MemoryOK', ProcsOK', ControlOK' PROVE TypeInv'
    BY <1>q, <1>t, <1>1 DEF TypeInv, TypeOK, ClocksOK, clockVars
  <1>2. ASSUME NEW a \in {"ok", "error"}, Stop(p, a) PROVE TypeInv'
    BY <1>q, <1>1, <1>2, StopTyped
  <1>3. ASSUME NEW l \in CRLSteps, Goto(p, l), MemoryOK', UNCHANGED <<result, cur, seen>>
        PROVE  TypeInv'
    BY <1>q, <1>1, <1>3, AdvanceTyped
       DEF Steps, RevokeSteps, ReleaseSteps, UpdateSteps, CASteps, CRLSteps, ScanSteps
  <1>4. CASE CRLRow(p)
    <2>1. CASE CanSign(p)
      <3>1. MemoryOK' /\ Goto(p, "crlRevs") /\ UNCHANGED <<result, cur, seen>>
        BY <1>t, <1>0, <1>4, <2>1 DEF CRLRow, MemoryOK
      <3> QED
        BY <1>3, <3>1 DEF CRLSteps
    <2> QED
      BY <1>2, <1>4, <2>1 DEF CRLRow
  <1>5. CASE CRLRevocations(p)
    <2>1. Current \in SUBSET Entries
      BY <1>t DEF Current, Entries, TablesOK, Revocations
    <2>2. MemoryOK' /\ Goto(p, "crlSave") /\ UNCHANGED <<result, cur, seen>>
      BY <1>t, <1>5, <2>1 DEF CRLRevocations, MemoryOK
    <2> QED
      BY <1>3, <2>2 DEF CRLSteps
  <1>6. CASE CRLSave(p)
    BY <1>2, <1>6 DEF CRLSave
  <1> QED
    BY <1>4, <1>5, <1>6 DEF CRLStep

LEMMA SchedulerTyped ==
    ASSUME TypeInv, NEW s \in Schedulers, ScanList(s) \/ ScanStep(s) \/ RefreshCRL(s)
    PROVE  TypeInv'
  <1> s \in Procs
    BY DEF Procs
  <1>t. TablesOK /\ ClocksOK /\ MemoryOK /\ ProcsOK /\ failures \in Nat /\ ControlOK
    BY DEF TypeInv, TypeOK
  <1>q. ASSUME TablesOK', UNCHANGED <<clockVars, failures>>, MemoryOK', ProcsOK', ControlOK'
        PROVE  TypeInv'
    BY <1>q, <1>t DEF TypeInv, TypeOK, ClocksOK, clockVars
  <1>a. ASSUME NEW l \in {"scanRow", "scanCASave", "crlRow"}, Goto(s, l), TablesOK',
               UNCHANGED <<clockVars, failures, call, result, cur>>, MemoryOK',
               \A q \in Procs \ {s} : seen'[q] = seen[q]
        PROVE  TypeInv'
    BY <1>q, <1>a, AdvanceTyped
       DEF Steps, RevokeSteps, ReleaseSteps, UpdateSteps, CASteps, CRLSteps, ScanSteps
  <1>b. ASSUME NEW a \in {"ok", "error"}, Stop(s, a), TablesOK',
               UNCHANGED <<clockVars, failures, call>>
        PROVE  TypeInv'
    BY <1>q, <1>b, StopTyped
  <1>1. CASE ScanList(s)
    <2>1. TablesOK'
      BY <1>t, <1>1 DEF ScanList, TablesOK, dbVars
    <2>2. MemoryOK' /\ \A q \in Procs \ {s} : seen'[q] = seen[q]
      BY <1>t, <1>1 DEF ScanList, MemoryOK, TablesOK
    <2> QED
      BY <1>1, <1>a, <2>1, <2>2 DEF ScanList
  <1>2. CASE ScanRow(s)
    <2>1. PICK c \in Certs :
            LET want == DeriveStatus(seen[s][c], age[c]) IN
            /\ seen[s][c] # Absent
            /\ IF want # seen[s][c] /\ status[c] = Absent
                 THEN Stop(s, "error") /\ UNCHANGED status
                 ELSE /\ status' = [status EXCEPT ![c] = IF want # seen[s][c] THEN want ELSE @]
                      /\ seen' = [seen EXCEPT ![s][c] = Absent]
                      /\ UNCHANGED <<pc, result, todo, cur, found, caSeen, entries>>
      BY <1>2 DEF ScanRow
    <2>2. UNCHANGED <<revs, ca, clockVars, call, failures>>
      BY <1>2 DEF ScanRow
    <2>3. CASE Stop(s, "error") /\ UNCHANGED status
      BY <1>t, <1>b, <2>2, <2>3 DEF TablesOK
    <2>4. CASE ~(Stop(s, "error") /\ UNCHANGED status)
      <3> DEFINE want == DeriveStatus(seen[s][c], age[c])
      <3>1. /\ status' = [status EXCEPT ![c] = IF want # seen[s][c] THEN want ELSE @]
            /\ seen' = [seen EXCEPT ![s][c] = Absent]
            /\ UNCHANGED <<pc, result, todo, cur, found, caSeen, entries>>
        BY <2>1, <2>4
      <3>2. want \in Statuses
        BY <1>t DEF DeriveStatus, Statuses, ClocksOK
      <3>3. TablesOK'
        BY <1>t, <2>2, <3>1, <3>2 DEF TablesOK
      <3>4. seen \in [Procs -> [Certs -> Statuses \cup {Absent}]]
        BY <1>t DEF MemoryOK
      <3>5. /\ seen' \in [Procs -> [Certs -> Statuses \cup {Absent}]]
            /\ \A q \in Procs \ {s} : seen'[q] = seen[q]
        BY <3>1, <3>4
      <3>6. MemoryOK' /\ ProcsOK'
        BY <1>t, <2>2, <3>1, <3>5 DEF MemoryOK, ProcsOK
      <3>7. pc[s] = "scanRow"
        BY <1>2 DEF ScanRow
      <3>8. ControlOK'
        BY <1>t, <2>2, <3>1, <3>5, <3>7
           DEF ControlOK, RevokeSteps, ReleaseSteps, UpdateSteps, CASteps, ScanSteps
      <3> QED
        BY <1>q, <2>2, <3>3, <3>6, <3>8
    <2> QED
      BY <2>3, <2>4
  <1>3. CASE ScanCARead(s)
    <2>1. TablesOK' /\ UNCHANGED <<clockVars, failures, call>>
      BY <1>t, <1>3 DEF ScanCARead, TablesOK, dbVars
    <2>2. CASE Stop(s, "ok")
      BY <1>b, <2>1, <2>2
    <2>3. CASE ~Stop(s, "ok")
      <3>1. CAAge(ca.cert) \in Ages
        BY <1>t DEF ClocksOK, CAAge, Ages
      <3>2. [ca EXCEPT !.status = CAAge(ca.cert)] \in Authorities
        BY <1>t, <3>1 DEF TablesOK, Authorities
      <3>3. MemoryOK' /\ Goto(s, "scanCASave") /\ UNCHANGED <<result, cur, seen>>
        BY <1>t, <1>3, <2>3, <3>2 DEF ScanCARead, MemoryOK
      <3> QED
        BY <1>a, <2>1, <3>3
    <2> QED
      BY <2>2, <2>3
  <1>4. CASE ScanCASave(s)
    <2>1. TablesOK'
      BY <1>t, <1>4 DEF ScanCASave, TablesOK, MemoryOK
    <2> QED
      BY <1>b, <1>4, <2>1 DEF ScanCASave
  <1>5. CASE RefreshCRL(s)
    <2>1. TablesOK' /\ MemoryOK' /\ UNCHANGED <<cur, seen>>
      BY <1>t, <1>5 DEF RefreshCRL, TablesOK, MemoryOK, dbVars, memVars
    <2> QED
      BY <1>a, <1>5, <2>1 DEF RefreshCRL
  <1> QED
    BY <1>1, <1>2, <1>3, <1>4, <1>5 DEF ScanStep

\* A failure ends a handler, or takes a bulk request to its next certificate.
LEMMA FailTyped ==
    ASSUME TypeInv, NEW p \in Procs, Fail(p)
    PROVE  TypeInv'
  <1>t. TablesOK /\ ClocksOK /\ MemoryOK /\ ProcsOK /\ failures \in Nat /\ ControlOK
    BY DEF TypeInv, TypeOK
  <1>1. TablesOK' /\ ClocksOK' /\ failures' \in Nat /\ UNCHANGED call
    BY <1>t DEF Fail, TablesOK, ClocksOK, dbVars, clockVars
  <1>q. ASSUME MemoryOK', ProcsOK', ControlOK' PROVE TypeInv'
    BY <1>q, <1>1 DEF TypeInv, TypeOK
  <1>2. CASE Stop(p, "error")
    BY <1>q, <1>1, <1>2, StopTyped
  <1>3. CASE pc[p] \in RevokeSteps \ {"next", "findHold"} /\ Refuse(p)
    <2>1. p \in Requests
      BY <1>t, <1>3 DEF ControlOK
    <2> QED
      BY <1>q, <1>1, <1>3, <2>1, RefuseTyped
  <1>4. CASE /\ pc[p] = "next" /\ Bulk(p)
             /\ \E c \in todo[p] : todo' = [todo EXCEPT ![p] = @ \ {c}]
             /\ UNCHANGED <<pc, result, cur, seen, found, caSeen, entries>>
    <2>1. MemoryOK'
      BY <1>t, <1>4 DEF MemoryOK
    <2>2. ProcsOK' /\ ControlOK'
      BY <1>t, <1>1, <1>4 DEF ProcsOK, ControlOK
    <2> QED
      BY <1>q, <2>1, <2>2
  <1>5. CASE pc[p] = "findHold" /\ MissHold(p)
    <2>1. MemoryOK'
      BY <1>t, <1>5 DEF MissHold, MemoryOK, memVars
    <2>2. ProcsOK'
      BY <1>t, <1>1, <1>5 DEF MissHold, Goto, ProcsOK, Steps, RevokeSteps
    <2>3. ControlOK'
      BY <1>t, <1>1, <1>5 DEF MissHold, Goto, ProcsOK, ControlOK, memVars, RevokeSteps, ReleaseSteps,
         UpdateSteps, CASteps, ScanSteps
    <2> QED
      BY <1>q, <2>1, <2>2, <2>3
  <1> QED
    BY <1>2, <1>3, <1>4, <1>5 DEF Fail

LEMMA ClockTyped ==
    ASSUME TypeInv, (\E c \in Certs : CertificateAges(c)) \/ AuthorityAges
    PROVE  TypeInv'
  <1>t. TablesOK /\ ClocksOK /\ MemoryOK /\ ProcsOK /\ failures \in Nat /\ ControlOK
    BY DEF TypeInv, TypeOK
  <1>1. \A a \in Ages : Later(a) \in Ages
    BY DEF Later, Ages
  <1>2. ClocksOK'
    BY <1>t, <1>1 DEF ClocksOK, CertificateAges, AuthorityAges
  <1>3. UNCHANGED <<dbVars, pc, call, result, memVars, failures>>
    BY DEF CertificateAges, AuthorityAges
  <1>4. TablesOK' /\ MemoryOK' /\ ProcsOK' /\ ControlOK' /\ failures' \in Nat
    BY <1>t, <1>3 DEF TablesOK, MemoryOK, ProcsOK, ControlOK, dbVars, memVars
  <1> QED
    BY <1>2, <1>4 DEF TypeInv, TypeOK

LEMMA TypeStep == TypeInv /\ [Next]_vars => TypeInv'
  <1> SUFFICES ASSUME TypeInv, [Next]_vars PROVE TypeInv'
    OBVIOUS
  <1>1. CASE \E r \in Requests : (\E k \in Calls : Begin(r, k)) \/ RequestStep(r)
    BY <1>1, BeginTyped, RevokeTyped, ReleaseTyped, UpdateTyped, AuthorityTyped DEF RequestStep
  <1>2. CASE \E s \in Schedulers : ScanList(s) \/ ScanStep(s) \/ RefreshCRL(s)
    BY <1>2, SchedulerTyped
  <1>3. CASE \E p \in Procs : CRLStep(p) \/ Fail(p)
    BY <1>3, CRLTyped, FailTyped
  <1>4. CASE (\E c \in Certs : CertificateAges(c)) \/ AuthorityAges
    BY <1>4, ClockTyped
  <1>5. CASE UNCHANGED vars
    BY <1>5 DEF vars, dbVars, clockVars, memVars, TypeInv, TypeOK, TablesOK, ClocksOK, MemoryOK,
                ProcsOK, ControlOK
  <1> QED
    BY <1>1, <1>2, <1>3, <1>4, <1>5 DEF Next

LEMMA TypeAlways == Spec => []TypeInv
  BY InitTyped, TypeStep, PTL DEF Spec

\* Whatever the number of certificates, requests and schedulers, the tables, the
\* clock and the memory of every handler keep their types.
THEOREM TypeCorrect == Spec => []TypeOK
  <1>1. TypeInv => TypeOK
    BY DEF TypeInv
  <1> QED
    BY TypeAlways, <1>1, PTL

=============================================================================
