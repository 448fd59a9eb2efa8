-------------------------- MODULE RevocationSafety --------------------------
(* The safety theorems about Revocation, on top of its type invariant.     *)
EXTENDS RevocationProofs

(* Which handlers write which column: the frame of every argument below.   *)

\* The steps that do not touch the revocations table.
LEMMA RevocationsFrame ==
    ASSUME Next, ~(\E r \in Requests : \/ RevokeDropHold(r) \/ RevokeInsert(r)
                                       \/ ReleaseDrop(r) \/ DeleteCertificate(r))
    PROVE  UNCHANGED revs
  <1> USE DEF dbVars
  <1>1. ASSUME NEW r \in Requests, NEW k \in Calls, Begin(r, k) PROVE UNCHANGED revs
    BY <1>1 DEF Begin
  <1>2. ASSUME NEW r \in Requests, RequestStep(r) PROVE UNCHANGED revs
    BY <1>2 DEF RequestStep, RevokeRead, RevokeFindHold, RevokeSave, BulkPublish, ReleaseRead,
                ReleaseFind, ReleaseSave, UpdateRead, UpdateSave, CARead, CASave, CRLForRead
  <1>3. ASSUME NEW s \in Schedulers, ScanList(s) \/ ScanStep(s) \/ RefreshCRL(s)
        PROVE  UNCHANGED revs
    BY <1>3 DEF ScanList, ScanStep, ScanRow, ScanCARead, ScanCASave, RefreshCRL
  <1>4. ASSUME NEW p \in Procs, CRLStep(p) \/ Fail(p) PROVE UNCHANGED revs
    BY <1>4 DEF CRLStep, CRLRow, CRLRevocations, CRLSave, Fail
  <1>5. CASE (\E c \in Certs : CertificateAges(c)) \/ AuthorityAges
    BY <1>5 DEF CertificateAges, AuthorityAges
  <1> QED
    BY <1>1, <1>2, <1>3, <1>4, <1>5 DEF Next

\* A row of the revocations table is written only by these four steps, each on
\* behalf of a request that works on this certificate.
LEMMA RevocationWritten ==
    ASSUME TypeInv, Next, NEW c \in Certs, revs'[c] # revs[c]
    PROVE  \E r \in Requests :
             /\ cur[r] = c
             /\ \/ RevokeInsert(r) /\ Insertable(c) /\ revs'[c] = NewRevocation(r)
                \/ (RevokeDropHold(r) \/ ReleaseDrop(r)) /\ RowIs(c, found[r]) /\ revs'[c] = None
                \/ DeleteCertificate(r) /\ status[c] # Absent /\ revs'[c] = None
  <1>1. PICK r \in Requests : \/ RevokeDropHold(r) \/ RevokeInsert(r)
                              \/ ReleaseDrop(r) \/ DeleteCertificate(r)
    BY RevocationsFrame
  <1>2. revs \in [Certs -> Revocations \cup {None}] /\ r \in Procs
    BY DEF TypeInv, TypeOK, TablesOK, Procs
  <1>3. CASE RevokeInsert(r)
    BY <1>2, <1>3 DEF RevokeInsert
  <1>4. CASE RevokeDropHold(r)
    BY <1>2, <1>4 DEF RevokeDropHold
  <1>5. CASE ReleaseDrop(r)
    BY <1>2, <1>5 DEF ReleaseDrop
  <1>6. CASE DeleteCertificate(r)
    BY <1>2, <1>6 DEF DeleteCertificate
  <1> QED
    BY <1>1, <1>3, <1>4, <1>5, <1>6

\* A certificate row disappears only by its deletion.
LEMMA OnlyDeleteRemoves ==
    ASSUME TypeInv, Next, NEW c \in Certs, status'[c] = Absent, status[c] # Absent
    PROVE  \E r \in Requests : DeleteCertificate(r) /\ cur[r] = c
  <1>t. /\ status \in [Certs -> Statuses \cup {Absent}] /\ age \in [Certs -> Ages]
        /\ Absent \notin Statuses /\ Ages \subseteq Statuses
    BY DEF TypeInv, TypeOK, TablesOK, ClocksOK, Statuses, Ages, Absent
  <1> USE DEF dbVars
  <1>1. ASSUME NEW r \in Requests, NEW k \in Calls, Begin(r, k) PROVE FALSE
    BY <1>1 DEF Begin
  <1>2. ASSUME NEW r \in Requests, RequestStep(r)
        PROVE  DeleteCertificate(r) /\ cur[r] = c
    <2> r \in Procs
      BY DEF Procs
    <2>1. CASE RevokeSave(r)
      BY <1>t, <2>1 DEF RevokeSave, Statuses, Absent
    <2>2. CASE ReleaseSave(r)
      <3>1. cur[r] \in Certs
        BY <2>2 DEF ReleaseSave, TypeInv, ControlOK, ReleaseSteps
      <3> QED
        BY <1>t, <2>2, <3>1 DEF ReleaseSave
    <2>3. CASE UpdateSave(r)
      <3>1. seen[r][cur[r]] # Absent
        BY <2>3 DEF UpdateSave, TypeInv, ControlOK
      <3> QED
        BY <1>t, <2>3, <3>1 DEF UpdateSave
    <2>4. CASE DeleteCertificate(r)
      BY <1>t, <2>4 DEF DeleteCertificate
    <2> QED
      BY <1>2, <2>1, <2>2, <2>3, <2>4
         DEF RequestStep, RevokeRead, RevokeFindHold, RevokeDropHold, RevokeInsert, BulkPublish,
             ReleaseRead, ReleaseFind, ReleaseDrop, UpdateRead, CARead, CASave, CRLForRead
  <1>3. ASSUME NEW s \in Schedulers, ScanList(s) \/ ScanStep(s) \/ RefreshCRL(s)
        PROVE  FALSE
    <2>1. CASE ScanRow(s)
      <3>1. PICK d \in Certs :
               \/ UNCHANGED status
               \/ status' = [status EXCEPT ![d] = IF DeriveStatus(seen[s][d], age[d]) # seen[s][d]
                                                    THEN DeriveStatus(seen[s][d], age[d]) ELSE @]
        BY <2>1 DEF ScanRow
      <3>2. DeriveStatus(seen[s][d], age[d]) \in Statuses
        BY <1>t DEF DeriveStatus, Statuses
      <3> QED
        BY <1>t, <3>1, <3>2
    <2> QED
      BY <1>3, <2>1 DEF ScanList, ScanStep, ScanCARead, ScanCASave, RefreshCRL
  <1>4. ASSUME NEW p \in Procs, CRLStep(p) \/ Fail(p) PROVE FALSE
    BY <1>4 DEF CRLStep, CRLRow, CRLRevocations, CRLSave, Fail
  <1>5. CASE (\E d \in Certs : CertificateAges(d)) \/ AuthorityAges
    BY <1>5 DEF CertificateAges, AuthorityAges
  <1> QED
    BY <1>1, <1>2, <1>3, <1>4, <1>5 DEF Next

-----------------------------------------------------------------------------
LEMMA NoOrphanStep ==
    TypeInv /\ NoOrphanRevocation /\ [Next]_vars => NoOrphanRevocation'
  <1> SUFFICES ASSUME TypeInv, NoOrphanRevocation, [Next]_vars,
                      NEW c \in Certs, revs'[c] # None
               PROVE  status'[c] # Absent
    BY DEF NoOrphanRevocation
  <1>1. CASE UNCHANGED vars
    BY <1>1 DEF vars, dbVars, NoOrphanRevocation
  <1>2. CASE Next /\ revs'[c] = revs[c]
    <2>1. ASSUME NEW r \in Requests, DeleteCertificate(r), cur[r] = c, status[c] # Absent
          PROVE  FALSE
      BY <1>2, <2>1 DEF DeleteCertificate, TypeInv, TypeOK, TablesOK
    <2> QED
      BY <1>2, <2>1, OnlyDeleteRemoves DEF NoOrphanRevocation
  <1>3. CASE Next /\ revs'[c] # revs[c]
    <2>1. PICK r \in Requests : RevokeInsert(r) /\ status[c] # Absent
      BY <1>3, RevocationWritten DEF Insertable
    <2> QED
      BY <2>1 DEF RevokeInsert
  <1> QED
    BY <1>1, <1>2, <1>3

\* However many handlers race, a certificate that is deleted takes its
\* revocation with it, and none is written for it afterwards: the foreign key and
\* the transaction of CertificateRepo.Delete are enough.
THEOREM NoOrphans == Spec => []NoOrphanRevocation
  <1>1. Init => NoOrphanRevocation
    BY DEF Init, NoOrphanRevocation
  <1> QED
    BY TypeAlways, <1>1, NoOrphanStep, PTL DEF Spec

-----------------------------------------------------------------------------
(* What a request is doing says what it was asked and what it has answered. *)

WorkOK(r) ==
    /\ pc[r] = "idle" => call[r] = NoCall /\ result[r] = "none"
    /\ pc[r] # "idle" => call[r] \in Calls
    /\ pc[r] \in RevokeSteps => todo[r] \subseteq call[r].certs
    /\ pc[r] \in RevokeSteps \ {"next"} => cur[r] \in call[r].certs
    /\ pc[r] \in RevokeSteps /\ call[r].kind = "revoke" => result[r] = "none"
    /\ pc[r] \in CRLSteps /\ call[r].kind = "revoke" => result[r] = "ok"
    /\ pc[r] = "delete" => /\ call[r].kind = "delete" /\ cur[r] \in call[r].certs
                           /\ result[r] = "none"

WorkInv == \A r \in Requests : WorkOK(r)

\* A request that is not touched still does what it did.
LEMMA WorkFrame ==
    ASSUME WorkInv, NEW r \in Requests, pc'[r] = pc[r], call'[r] = call[r],
           result'[r] = result[r], todo'[r] = todo[r], cur'[r] = cur[r]
    PROVE  WorkOK(r)'
  BY DEF WorkInv, WorkOK

LEMMA StopWork ==
    ASSUME TypeInv, WorkInv, NEW p \in Procs, NEW a \in {"ok", "error"},
           Stop(p, a), UNCHANGED call, p \in Requests => pc[p] # "idle"
    PROVE  WorkInv'
  <1>1. ASSUME NEW r \in Requests, r # p PROVE WorkOK(r)'
    BY <1>1, WorkFrame DEF Stop, Goto, TypeInv, TypeOK, ProcsOK, MemoryOK, Procs
  <1>2. ASSUME p \in Requests PROVE WorkOK(p)'
    <2>1. pc'[p] = "done" /\ call'[p] = call[p] /\ call[p] \in Calls
      BY <1>2, ProcsAssumption DEF Stop, Goto, TypeInv, TypeOK, ProcsOK, WorkInv, WorkOK
    <2> QED
      BY <2>1 DEF WorkOK, RevokeSteps, CRLSteps
  <1> QED
    BY <1>1, <1>2 DEF WorkInv

LEMMA PublishWork ==
    ASSUME TypeInv, WorkInv, NEW r \in Requests, Publish(r), UNCHANGED call, pc[r] # "idle"
    PROVE  WorkInv'
  <1> r \in Procs
    BY DEF Procs
  <1>1. CASE CanSign(r)
    <2>1. ASSUME NEW q \in Requests, q # r PROVE WorkOK(q)'
      BY <1>1, <2>1, WorkFrame DEF Publish, Goto, memVars, TypeInv, TypeOK, ProcsOK, Procs
    <2>2. pc'[r] = "crlRow" /\ call'[r] = call[r] /\ call[r] \in Calls /\ result'[r] = "ok"
      BY <1>1 DEF Publish, Goto, TypeInv, TypeOK, ProcsOK, WorkInv, WorkOK
    <2> QED
      BY <2>1, <2>2 DEF WorkInv, WorkOK, RevokeSteps, CRLSteps
  <1>2. CASE ~CanSign(r)
    BY <1>2, StopWork DEF Publish
  <1> QED
    BY <1>1, <1>2

LEMMA RefuseWork ==
    ASSUME TypeInv, WorkInv, NEW r \in Requests, Refuse(r), UNCHANGED call, pc[r] \in RevokeSteps
    PROVE  WorkInv'
  <1> r \in Procs /\ pc[r] # "idle"
    BY DEF Procs, RevokeSteps
  <1>1. CASE Bulk(r)
    <2>1. ASSUME NEW q \in Requests, q # r PROVE WorkOK(q)'
      BY <1>1, <2>1, WorkFrame DEF Refuse, Goto, memVars, TypeInv, TypeOK, ProcsOK, Procs
    <2>2. pc'[r] = "next" /\ call'[r] = call[r] /\ call[r] \in Calls /\ todo'[r] = todo[r]
      BY <1>1 DEF Refuse, Goto, memVars, TypeInv, TypeOK, ProcsOK, WorkInv, WorkOK
    <2>3. todo[r] \subseteq call[r].certs /\ call[r].kind # "revoke"
      BY <1>1 DEF Bulk, WorkInv, WorkOK
    <2> QED
      BY <2>1, <2>2, <2>3 DEF WorkInv, WorkOK, RevokeSteps, CRLSteps
  <1>2. CASE ~Bulk(r)
    BY <1>2, StopWork DEF Refuse
  <1> QED
    BY <1>1, <1>2

LEMMA BeginWork ==
    ASSUME TypeInv, WorkInv, NEW r \in Requests, NEW k \in Calls, Begin(r, k)
    PROVE  WorkInv'
  <1> r \in Procs
    BY DEF Procs
  <1>1. PICK c \in (IF k.kind \in CertKinds THEN k.certs ELSE {None}) :
             cur' = [cur EXCEPT ![r] = c]
    BY DEF Begin
  <1>2. ASSUME NEW q \in Requests, q # r PROVE WorkOK(q)'
    BY <1>1, <1>2, WorkFrame DEF Begin, Goto, TypeInv, TypeOK, ProcsOK, MemoryOK, Procs
  <1>3. /\ pc'[r] = FirstStep[k.kind] /\ call'[r] = k /\ cur'[r] = c
        /\ result'[r] = "none"
        /\ todo'[r] = IF k.kind \in RevokeKinds THEN k.certs ELSE {}
    BY <1>1 DEF Begin, Goto, TypeInv, TypeOK, ProcsOK, MemoryOK, WorkInv, WorkOK
  <1>4. /\ k.kind \in RevokeKinds \cup CertKinds \cup CAKinds /\ k.certs \in SUBSET Certs
    BY CallsTyped
  <1>5. /\ k.kind \in RevokeKinds => FirstStep[k.kind] = "next"
        /\ k.kind \in CertKinds \ {"delete"} => FirstStep[k.kind] \in {"releaseRead", "updateRead"}
        /\ FirstStep["delete"] = "delete" /\ "delete" \in CertKinds
        /\ k.kind \in CAKinds => FirstStep[k.kind] \in {"caRead", "crlForRead", "crlRow"}
        /\ "revoke" \notin CAKinds /\ "revoke" \notin CertKinds
    BY DEF FirstStep, RevokeKinds, CertKinds, CAKinds
  <1>6. WorkOK(r)'
    BY <1>3, <1>4, <1>5 DEF WorkOK, RevokeSteps, CRLSteps
  <1> QED
    BY <1>2, <1>6 DEF WorkInv

LEMMA WorkStep == TypeInv /\ WorkInv /\ [Next]_vars => WorkInv'
  <1> SUFFICES ASSUME TypeInv, WorkInv, [Next]_vars PROVE WorkInv'
    OBVIOUS
  <1>t. TablesOK /\ ClocksOK /\ MemoryOK /\ ProcsOK /\ ControlOK
    BY DEF TypeInv, TypeOK
  <1>1. ASSUME NEW r \in Requests, NEW k \in Calls, Begin(r, k) PROVE WorkInv'
    BY <1>1, BeginWork
  \* From one step of a handler to the next: r is the process that moves, and
  \* only what it has left to do may change.
  <1>m. ASSUME NEW r \in Procs, NEW l \in Steps \ {"idle", "delete"}, Goto(r, l),
               pc[r] # "idle", UNCHANGED <<call, result>>,
               \A q \in Procs \ {r} : todo'[q] = todo[q] /\ cur'[q] = cur[q],
               l \in RevokeSteps => pc[r] \in RevokeSteps /\ todo'[r] \subseteq todo[r],
               l \in RevokeSteps \ {"next"} => cur'[r] \in call[r].certs,
               l \in CRLSteps => pc[r] \in CRLSteps \/ call[r].kind # "revoke"
        PROVE  WorkInv'
    <2>1. ASSUME NEW q \in Requests, q # r PROVE WorkOK(q)'
      BY <1>t, <1>m, <2>1, WorkFrame DEF Goto, ProcsOK, Procs
    <2>2. ASSUME r \in Requests PROVE WorkOK(r)'
      <3>1. pc'[r] = l /\ call'[r] = call[r] /\ call[r] \in Calls /\ result'[r] = result[r]
        BY <1>t, <1>m, <2>2 DEF Goto, ProcsOK, WorkInv, WorkOK
      <3> QED
        BY <1>m, <2>2, <3>1 DEF WorkInv, WorkOK, RevokeSteps, CRLSteps
    <2> QED
      BY <2>1, <2>2 DEF WorkInv
  <1>2. ASSUME NEW r \in Requests, RequestStep(r) PROVE WorkInv'
    <2> r \in Procs
      BY DEF Procs
    <2>w. WorkOK(r)
      BY DEF WorkInv
    <2>u. UNCHANGED call
      BY <1>2 DEF RequestStep, RevokeRead, RevokeFindHold, RevokeDropHold, RevokeInsert, RevokeSave,
         BulkPublish, ReleaseRead, ReleaseFind, ReleaseDrop, ReleaseSave, UpdateRead, UpdateSave,
         DeleteCertificate, CARead, CASave, CRLForRead
    <2>i. pc[r] # "idle"
      BY <1>2 DEF RequestStep, RevokeRead, RevokeFindHold, RevokeDropHold, RevokeInsert, RevokeSave,
         BulkPublish, ReleaseRead, ReleaseFind, ReleaseDrop, ReleaseSave, UpdateRead, UpdateSave,
         DeleteCertificate, CARead, CASave, CRLForRead
    <2>s. ASSUME NEW a \in {"ok", "error"}, Stop(r, a) PROVE WorkInv'
      BY <2>i, <2>s, <2>u, StopWork
    <2>p. ASSUME Publish(r) PROVE WorkInv'
      BY <2>i, <2>p, <2>u, PublishWork
    <2>r. ASSUME Refuse(r), pc[r] \in RevokeSteps PROVE WorkInv'
      BY <2>r, <2>u, RefuseWork
    <2>1. CASE RevokeRead(r)
      <3>1. PICK c \in todo[r] :
              IF AfterRead(status[c]) = "next" /\ ~Bulk(r)
                THEN Stop(r, "error")
                ELSE /\ todo' = [todo EXCEPT ![r] = @ \ {c}]
                     /\ cur' = [cur EXCEPT ![r] = c]
                     /\ Goto(r, AfterRead(status[c]))
                     /\ found' = [found EXCEPT ![r] = None]
                     /\ UNCHANGED <<result, seen, caSeen, entries>>
        BY <2>1 DEF RevokeRead
      <3>2. CASE ~Stop(r, "error")
        <4>1. /\ todo' = [todo EXCEPT ![r] = @ \ {c}] /\ cur' = [cur EXCEPT ![r] = c]
              /\ Goto(r, AfterRead(status[c])) /\ UNCHANGED result
          BY <3>1, <3>2
        <4>2. AfterRead(status[c]) \in RevokeSteps
          BY DEF AfterRead, RevokeSteps
        <4>3. pc[r] \in RevokeSteps /\ todo[r] \subseteq call[r].certs
          BY <2>1, <2>w DEF RevokeRead, WorkOK, RevokeSteps
        <4> HIDE DEF WorkOK
        <4>4. /\ \A q \in Procs \ {r} : todo'[q] = todo[q] /\ cur'[q] = cur[q]
              /\ todo'[r] \subseteq todo[r] /\ cur'[r] \in call[r].certs
          BY <1>t, <4>1, <4>3 DEF MemoryOK
        <4> QED
          BY <1>m, <2>i, <2>u, <4>1, <4>2, <4>3, <4>4 DEF Steps, Resting, RevokeSteps, CRLSteps
      <3> QED
        BY <2>s, <3>1, <3>2
    <2>2. CASE RevokeFindHold(r)
      <3>1. \E l \in {"insert", "dropHold"} : Goto(r, l)
        BY <2>2 DEF RevokeFindHold
      <3>2. UNCHANGED <<todo, cur, result>> /\ pc[r] = "findHold"
        BY <2>2 DEF RevokeFindHold
      <3>3. cur[r] \in call[r].certs
        BY <2>w, <3>2 DEF WorkOK, RevokeSteps
      <3> QED
        BY <1>m, <2>i, <2>u, <3>1, <3>2, <3>3 DEF Steps, Resting, RevokeSteps, CRLSteps
    <2>3. CASE RevokeDropHold(r) \/ RevokeInsert(r)
      <3>1. pc[r] \in {"dropHold", "insert"}
        BY <2>3 DEF RevokeDropHold, RevokeInsert
      <3>2. CASE Refuse(r)
        BY <2>r, <3>1, <3>2 DEF RevokeSteps
      <3>3. CASE ~Refuse(r)
        <4>1. \E l \in {"insert", "saveRevoked"} : Goto(r, l)
          BY <2>3, <3>3 DEF RevokeDropHold, RevokeInsert
        <4>2. UNCHANGED <<todo, cur, result>>
          BY <2>3, <3>3 DEF RevokeDropHold, RevokeInsert, memVars
        <4>3. cur[r] \in call[r].certs
          BY <2>w, <3>1 DEF WorkOK, RevokeSteps
        <4> QED
          BY <1>m, <2>i, <2>u, <3>1, <4>1, <4>2, <4>3 DEF Steps, Resting, RevokeSteps, CRLSteps
      <3> QED
        BY <3>2, <3>3
    <2>4. CASE RevokeSave(r)
      <3>1. CASE Publish(r)
        BY <2>p, <3>1
      <3>2. CASE ~Publish(r)
        <4>1. /\ Bulk(r) /\ Goto(r, "next") /\ result' = [result EXCEPT ![r] = "ok"]
              /\ UNCHANGED memVars /\ pc[r] = "saveRevoked"
          BY <2>4, <3>2 DEF RevokeSave
        <4>2. ASSUME NEW q \in Requests, q # r PROVE WorkOK(q)'
          BY <1>t, <2>u, <4>1, <4>2, WorkFrame DEF Goto, ProcsOK, memVars, Procs
        <4>3. WorkOK(r)'
          BY <1>t, <2>u, <2>w, <4>1 DEF WorkOK, Goto, ProcsOK, memVars, Bulk, RevokeSteps, CRLSteps
        <4> QED
          BY <4>2, <4>3 DEF WorkInv
      <3> QED
        BY <3>1, <3>2
    <2>5. CASE BulkPublish(r)
      BY <2>p, <2>s, <2>5 DEF BulkPublish
    <2>6. CASE ReleaseRead(r) \/ ReleaseFind(r) \/ ReleaseDrop(r) \/ UpdateRead(r) \/ CARead(r)
      <3>1. CASE Stop(r, "error")
        BY <2>s, <3>1
      <3>2. CASE ~Stop(r, "error")
        <4>1. \E l \in {"releaseFind", "releaseDrop", "releaseSave", "updateSave", "caSave"} : Goto(r, l)
          BY <2>6, <3>2 DEF ReleaseRead, ReleaseFind, ReleaseDrop, UpdateRead, CARead
        <4>2. UNCHANGED <<todo, cur, result>>
          BY <2>6, <3>2 DEF ReleaseRead, ReleaseFind, ReleaseDrop, UpdateRead, CARead, memVars
        <4> QED
          BY <1>m, <2>i, <2>u, <4>1, <4>2
             DEF Steps, Resting, RevokeSteps, CRLSteps, ReleaseSteps, UpdateSteps, CASteps
      <3> QED
        BY <3>1, <3>2
    <2>7. CASE ReleaseSave(r)
      BY <2>p, <2>7 DEF ReleaseSave
    <2>8. CASE UpdateSave(r) \/ DeleteCertificate(r) \/ CASave(r)
      <3>1. \E a \in {"ok", "error"} : Stop(r, a)
        BY <2>8 DEF UpdateSave, DeleteCertificate, CASave
      <3> QED
        BY <2>s, <3>1
    <2>9. CASE CRLForRead(r)
      <3>1. CASE \E a \in {"ok", "error"} : Stop(r, a)
        BY <2>s, <3>1
      <3>2. CASE Goto(r, "crlRow") /\ UNCHANGED <<result, memVars>>
        <4>1. call[r].kind # "revoke"
          BY <1>t, <2>9 DEF CRLForRead, ControlOK, RevokeKinds
        <4> QED
          BY <1>m, <2>i, <2>u, <3>2, <4>1 DEF Steps, Resting, RevokeSteps, CRLSteps, memVars
      <3> QED
        BY <2>9, <3>1, <3>2 DEF CRLForRead
    <2> QED
      BY <1>2, <2>1, <2>2, <2>3, <2>4, <2>5, <2>6, <2>7, <2>8, <2>9 DEF RequestStep
  <1>3. ASSUME NEW s \in Schedulers, ScanList(s) \/ ScanStep(s) \/ RefreshCRL(s)
        PROVE  WorkInv'
    <2>1. s \in Procs /\ s \notin Requests
      BY ProcsAssumption DEF Procs
    <2>2. UNCHANGED call
      BY <1>3 DEF ScanList, ScanStep, ScanRow, ScanCARead, ScanCASave, RefreshCRL
    <2>3. \A q \in Procs \ {s} : /\ pc'[q] = pc[q] /\ result'[q] = result[q]
                                 /\ todo'[q] = todo[q] /\ cur'[q] = cur[q]
      BY <1>3, <1>t DEF ScanList, ScanStep, ScanRow, ScanCARead, ScanCASave, RefreshCRL, Stop, Goto,
         memVars, ProcsOK, MemoryOK
    <2> QED
      BY <2>1, <2>2, <2>3, WorkFrame DEF WorkInv, Procs
  <1>4. ASSUME NEW p \in Procs, CRLStep(p) PROVE WorkInv'
    <2>1. UNCHANGED call /\ pc[p] \in CRLSteps
      BY <1>4 DEF CRLStep, CRLRow, CRLRevocations, CRLSave, CRLSteps
    <2>2. pc[p] # "idle"
      BY <2>1 DEF CRLSteps
    <2>3. CASE \E a \in {"ok", "error"} : Stop(p, a)
      BY <2>1, <2>2, <2>3, StopWork
    <2>4. CASE /\ \E l \in {"crlRevs", "crlSave"} : Goto(p, l)
               /\ UNCHANGED <<result, todo, cur>>
      BY <1>m, <2>1, <2>2, <2>4 DEF Steps, Resting, RevokeSteps, CRLSteps
    <2> QED
      BY <1>4, <2>3, <2>4 DEF CRLStep, CRLRow, CRLRevocations, CRLSave
  <1>5. ASSUME NEW p \in Procs, Fail(p) PROVE WorkInv'
    <2>1. UNCHANGED call /\ pc[p] # "idle"
      BY <1>5 DEF Fail, Resting
    <2>2. CASE Stop(p, "error")
      BY <2>1, <2>2, StopWork
    <2>3. CASE pc[p] \in RevokeSteps \ {"next", "findHold"} /\ Refuse(p)
      BY <1>t, <2>1, <2>3, RefuseWork DEF ControlOK
    <2>5. CASE pc[p] = "findHold" /\ MissHold(p)
      <3>1. p \in Requests
        BY <1>t, <2>5 DEF ControlOK, RevokeSteps
      <3>2. cur[p] \in call[p].certs
        BY <2>5, <3>1 DEF WorkInv, WorkOK, RevokeSteps
      <3> QED
        BY <1>m, <2>1, <2>5, <3>2 DEF MissHold, memVars, Steps, Resting, RevokeSteps, CRLSteps
    <2>4. CASE /\ pc[p] = "next" /\ Bulk(p)
               /\ \E c \in todo[p] : todo' = [todo EXCEPT ![p] = @ \ {c}]
               /\ UNCHANGED <<pc, result, cur, seen, found, caSeen, entries>>
      <3>1. ASSUME NEW q \in Requests, q # p PROVE WorkOK(q)'
        BY <1>t, <2>1, <2>4, <3>1, WorkFrame DEF MemoryOK, Procs
      <3>2. ASSUME p \in Requests PROVE WorkOK(p)'
        BY <1>t, <2>1, <2>4, <3>2 DEF MemoryOK, WorkInv, WorkOK, RevokeSteps, CRLSteps
      <3> QED
        BY <3>1, <3>2 DEF WorkInv
    <2> QED
      BY <1>5, <2>2, <2>3, <2>4, <2>5 DEF Fail
  <1>6. CASE (\E c \in Certs : CertificateAges(c)) \/ AuthorityAges \/ UNCHANGED vars
    <2>1. UNCHANGED <<pc, call, result, todo, cur>>
      BY <1>6 DEF CertificateAges, AuthorityAges, vars, memVars
    <2> QED
      BY <2>1, WorkFrame DEF WorkInv
  <1> QED
    BY <1>1, <1>2, <1>3, <1>4, <1>5, <1>6 DEF Next

LEMMA WorkAlways == Spec => []WorkInv
  <1>1. Init => WorkInv
    BY DEF Init, WorkInv, WorkOK, Procs, RevokeSteps, CRLSteps
  <1> QED
    BY TypeAlways, WorkStep, <1>1, PTL DEF Spec

-----------------------------------------------------------------------------
(* Nothing is published that nobody asked for.                             *)

Asked(c, x) == \E r \in Requests :
    call[r].kind \in RevokeKinds /\ c \in call[r].certs /\ call[r].reason = x

AllAsked(list) == \A e \in list : Asked(e.cert, e.reason)

\* Every copy of an entry, in the tables and in the memory of the handlers.
AskedInv ==
    /\ \A c \in Certs : revs[c] # None => Asked(c, revs[c].reason)
    /\ AllAsked(ca.list)
    /\ \A p \in Procs : AllAsked(caSeen[p].list) /\ AllAsked(entries[p])

\* A request is given its call once.
LEMMA CallStable ==
    ASSUME TypeInv, WorkInv, [Next]_vars, NEW r \in Requests, pc[r] # "idle"
    PROVE  call'[r] = call[r]
  <1>1. ASSUME NEW q \in Requests, NEW k \in Calls, Begin(q, k) PROVE call'[r] = call[r]
    BY <1>1 DEF Begin, TypeInv, TypeOK, ProcsOK, Procs
  <1>2. ASSUME NEW q \in Requests, RequestStep(q) PROVE UNCHANGED call
    BY <1>2 DEF RequestStep, RevokeRead, RevokeFindHold, RevokeDropHold, RevokeInsert, RevokeSave,
       BulkPublish, ReleaseRead, ReleaseFind, ReleaseDrop, ReleaseSave, UpdateRead, UpdateSave,
       DeleteCertificate, CARead, CASave, CRLForRead
  <1>3. ASSUME NEW s \in Schedulers, ScanList(s) \/ ScanStep(s) \/ RefreshCRL(s)
        PROVE  UNCHANGED call
    BY <1>3 DEF ScanList, ScanStep, ScanRow, ScanCARead, ScanCASave, RefreshCRL
  <1>4. ASSUME NEW p \in Procs, CRLStep(p) \/ Fail(p) PROVE UNCHANGED call
    BY <1>4 DEF CRLStep, CRLRow, CRLRevocations, CRLSave, Fail
  <1>5. CASE (\E c \in Certs : CertificateAges(c)) \/ AuthorityAges \/ UNCHANGED vars
    BY <1>5 DEF CertificateAges, AuthorityAges, vars
  <1> QED
    BY <1>1, <1>2, <1>3, <1>4, <1>5 DEF Next

LEMMA AskedStable ==
    ASSUME TypeInv, WorkInv, [Next]_vars, NEW c, NEW x, Asked(c, x)
    PROVE  Asked(c, x)'
  <1>1. PICK r \in Requests :
          call[r].kind \in RevokeKinds /\ c \in call[r].certs /\ call[r].reason = x
    BY DEF Asked
  <1>2. call[r] # NoCall
    BY <1>1 DEF NoCall, RevokeKinds
  <1>3. pc[r] # "idle"
    BY <1>2 DEF WorkInv, WorkOK
  <1>4. call'[r] = call[r]
    BY <1>3, CallStable
  <1> QED
    BY <1>1, <1>4 DEF Asked

\* A list that is read, kept or written was one of the lists above.
LEMMA ListsKept ==
    ASSUME TypeInv, Next
    PROVE  /\ ca'.list = ca.list \/ \E p \in Procs : ca'.list \in {caSeen[p].list, entries[p]}
           /\ \A p \in Procs :
                /\ caSeen'[p].list \in {caSeen[p].list, ca.list, {}}
                /\ entries'[p] \in {entries[p], Current, {}}
  <1>t. /\ caSeen \in [Procs -> Authorities] /\ entries \in [Procs -> SUBSET Entries]
        /\ ca \in Authorities
    BY DEF TypeInv, TypeOK, MemoryOK, TablesOK
  <1>s. ASSUME NEW p \in Procs, NEW a, Stop(p, a)
        PROVE  \A q \in Procs : /\ caSeen'[q].list \in {caSeen[q].list, {}}
                                /\ entries'[q] \in {entries[q], {}}
    BY <1>t, <1>s DEF Stop, FirstCA
  <1>c. ASSUME NEW p \in Procs, NEW row \in Authorities, row.list = ca.list,
               caSeen' = [caSeen EXCEPT ![p] = row]
        PROVE  \A q \in Procs : caSeen'[q].list \in {caSeen[q].list, ca.list}
    BY <1>t, <1>c
  <1>1. ASSUME NEW r \in Requests, NEW k \in Calls, Begin(r, k)
        PROVE  UNCHANGED <<ca, caSeen, entries>>
    BY <1>1 DEF Begin, dbVars
  <1>2. ASSUME NEW r \in Requests, RequestStep(r)
        PROVE  /\ ca'.list \in {ca.list, caSeen[r].list}
               /\ \A q \in Procs : /\ caSeen'[q].list \in {caSeen[q].list, ca.list, {}}
                                   /\ entries'[q] \in {entries[q], {}}
    <2> r \in Procs
      BY DEF Procs
    <2>1. CASE CARead(r)
      BY <1>t, <1>s, <1>c, <2>1 DEF CARead, dbVars
    <2>2. CASE CASave(r)
      <3>1. ca'.list = caSeen[r].list
        BY <2>2 DEF CASave, Renewed
      <3> QED
        BY <1>s, <2>2, <3>1 DEF CASave
    <2>3. CASE ~CARead(r) /\ ~CASave(r)
      <3>1. UNCHANGED ca /\ (UNCHANGED <<caSeen, entries>> \/ \E a \in {"ok", "error"} : Stop(r, a))
        BY <1>2, <2>3 DEF RequestStep, RevokeRead, RevokeFindHold, RevokeDropHold, RevokeInsert,
           RevokeSave, BulkPublish, ReleaseRead, ReleaseFind, ReleaseDrop, ReleaseSave, UpdateRead,
           UpdateSave, DeleteCertificate, CRLForRead, Publish, Refuse, dbVars, memVars
      <3> QED
        BY <1>s, <3>1
    <2> QED
      BY <2>1, <2>2, <2>3
  <1>3. ASSUME NEW s \in Schedulers, ScanList(s) \/ ScanStep(s) \/ RefreshCRL(s)
        PROVE  /\ ca'.list \in {ca.list, caSeen[s].list}
               /\ \A q \in Procs : /\ caSeen'[q].list \in {caSeen[q].list, ca.list, {}}
                                   /\ entries'[q] \in {entries[q], {}}
    <2> s \in Procs
      BY DEF Procs
    <2>1. CASE ScanCARead(s)
      <3>1. CASE Stop(s, "ok")
        BY <1>s, <2>1, <3>1 DEF ScanCARead, dbVars
      <3>2. CASE ~Stop(s, "ok")
        <4>1. CAAge(ca.cert) \in Ages
          BY DEF CAAge, Ages, TypeInv, TypeOK, ClocksOK
        <4>2. [ca EXCEPT !.status = CAAge(ca.cert)] \in Authorities
          BY <1>t, <4>1 DEF Authorities
        <4>3. [ca EXCEPT !.status = CAAge(ca.cert)].list = ca.list
          BY <1>t DEF Authorities
        <4> QED
          BY <1>c, <2>1, <3>2, <4>2, <4>3 DEF ScanCARead, dbVars
      <3> QED
        BY <3>1, <3>2
    <2>2. CASE ScanCASave(s)
      BY <1>s, <2>2 DEF ScanCASave
    <2>3. CASE ~ScanCARead(s) /\ ~ScanCASave(s)
      <3>1. UNCHANGED ca /\ (UNCHANGED <<caSeen, entries>> \/ Stop(s, "error"))
        BY <1>3, <2>3 DEF ScanList, ScanStep, ScanRow, RefreshCRL, dbVars, memVars
      <3> QED
        BY <1>s, <3>1
    <2> QED
      BY <2>1, <2>2, <2>3
  <1>4. ASSUME NEW p \in Procs, CRLStep(p)
        PROVE  /\ ca'.list \in {ca.list, entries[p]}
               /\ \A q \in Procs : /\ caSeen'[q].list \in {caSeen[q].list, ca.list, {}}
                                   /\ entries'[q] \in {entries[q], Current, {}}
    <2>1. CASE CRLRow(p)
      BY <1>t, <1>s, <1>c, <2>1 DEF CRLRow, dbVars
    <2>2. CASE CRLRevocations(p)
      BY <1>t, <2>2 DEF CRLRevocations, dbVars
    <2>3. CASE CRLSave(p)
      BY <1>s, <2>3 DEF CRLSave, Published
    <2> QED
      BY <1>4, <2>1, <2>2, <2>3 DEF CRLStep
  <1>5. ASSUME NEW p \in Procs, Fail(p)
        PROVE  /\ UNCHANGED ca
               /\ \A q \in Procs : /\ caSeen'[q].list \in {caSeen[q].list, {}}
                                   /\ entries'[q] \in {entries[q], {}}
    <2>1. UNCHANGED <<caSeen, entries>> \/ Stop(p, "error")
      BY <1>5 DEF Fail, MissHold, Refuse, memVars
    <2> QED
      BY <1>s, <1>5, <2>1 DEF Fail, dbVars
  <1>6. CASE (\E c \in Certs : CertificateAges(c)) \/ AuthorityAges
    BY <1>6 DEF CertificateAges, AuthorityAges, dbVars, memVars
  <1> QED
    BY <1>1, <1>2, <1>3, <1>4, <1>5, <1>6 DEF Next, Procs

LEMMA AskedStep == TypeInv /\ WorkInv /\ AskedInv /\ [Next]_vars => AskedInv'
  <1> SUFFICES ASSUME TypeInv, WorkInv, AskedInv, [Next]_vars PROVE AskedInv'
    OBVIOUS
  <1>s. ASSUME NEW e \in Entries, Asked(e.cert, e.reason)
        PROVE  \E r \in Requests : /\ call'[r].kind \in RevokeKinds /\ e.cert \in call'[r].certs
                                   /\ call'[r].reason = e.reason
    BY <1>s, AskedStable DEF Asked
  <1>1. CASE UNCHANGED vars
    BY <1>1 DEF vars, dbVars, memVars, AskedInv, AllAsked, Asked
  <1>2. CASE Next
    <2>t. /\ revs \in [Certs -> Revocations \cup {None}] /\ ca \in Authorities
          /\ caSeen \in [Procs -> Authorities] /\ entries \in [Procs -> SUBSET Entries]
      BY DEF TypeInv, TypeOK, TablesOK, MemoryOK
    <2>1. ASSUME NEW list \in SUBSET Entries, AllAsked(list)
          PROVE  \A e \in list : \E r \in Requests :
                    /\ call'[r].kind \in RevokeKinds /\ e.cert \in call'[r].certs
                    /\ call'[r].reason = e.reason
      BY <1>s, <2>1 DEF AllAsked
    <2>2. ASSUME NEW c \in Certs, revs'[c] # None
          PROVE  \E r \in Requests : /\ call'[r].kind \in RevokeKinds /\ c \in call'[r].certs
                                     /\ call'[r].reason = revs'[c].reason
      <3>1. CASE revs'[c] = revs[c]
        <4>1. Asked(c, revs[c].reason)
          BY <2>2, <3>1 DEF AskedInv
        <4> QED
          BY <3>1, <4>1, AskedStable DEF Asked
      <3>2. CASE revs'[c] # revs[c]
        <4>1. PICK r \in Requests : /\ cur[r] = c /\ RevokeInsert(r)
                                    /\ revs'[c] = NewRevocation(r)
          BY <1>2, <2>2, <3>2, RevocationWritten
        <4>2. pc[r] = "insert" /\ call'[r] = call[r]
          BY <4>1 DEF RevokeInsert
        <4>3. call[r].kind \in RevokeKinds /\ c \in call[r].certs
          BY <4>1, <4>2 DEF TypeInv, ControlOK, WorkInv, WorkOK, RevokeSteps, Procs
        <4> QED
          BY <4>1, <4>2, <4>3 DEF NewRevocation
      <3> QED
        BY <3>1, <3>2
    <2>3. AllAsked(Current) /\ Current \in SUBSET Entries /\ AllAsked({})
      BY <2>t DEF Current, AllAsked, AskedInv, Entries, Revocations
    <2>4. /\ \A p \in Procs : /\ AllAsked(caSeen[p].list) /\ caSeen[p].list \in SUBSET Entries
                              /\ AllAsked(entries[p]) /\ entries[p] \in SUBSET Entries
          /\ AllAsked(ca.list) /\ ca.list \in SUBSET Entries
      BY <2>t DEF AskedInv, Authorities
    <2>5. /\ \A e \in ca'.list : Asked(e.cert, e.reason)'
          /\ \A p \in Procs : /\ \A e \in caSeen'[p].list : Asked(e.cert, e.reason)'
                              /\ \A e \in entries'[p] : Asked(e.cert, e.reason)'
      BY <1>2, <2>1, <2>3, <2>4, ListsKept DEF Asked
    <2> QED
      BY <2>2, <2>5 DEF AskedInv, AllAsked, Asked
  <1> QED
    BY <1>1, <1>2

\* For every number of certificates, requests and replicas, whatever is stored
\* and whatever is published, in whatever order lists overtake each other, is
\* what some request asked to revoke, with the reason it gave.
THEOREM OnlyRequested == Spec => []RevocationsWereRequested
  <1>1. Init => AskedInv
    BY DEF Init, AskedInv, AllAsked, FirstCA
  <1>2. AskedInv => RevocationsWereRequested
    BY DEF AskedInv, AllAsked, Asked, RevocationsWereRequested
  <1> QED
    BY TypeAlways, WorkAlways, AskedStep, <1>1, <1>2, PTL DEF Spec

-----------------------------------------------------------------------------
(* Where nobody uses the hold, a revocation is permanent.                  *)

NoHolds ==
    /\ \A c \in Certs : status[c] # "held" /\ (revs[c] # None => revs[c].reason # Hold)
    /\ \A p \in Procs : /\ \A c \in Certs : seen[p][c] # "held"
                        /\ pc[p] \notin {"findHold", "dropHold", "releaseFind", "releaseDrop",
                                         "releaseSave"}

\* A row is read as it is, or forgotten.
LEMMA SeenKept ==
    ASSUME TypeInv, Next, NEW p \in Procs, NEW c \in Certs
    PROVE  seen'[p][c] \in {seen[p][c], status[c], Absent}
  <1>t. seen \in [Procs -> [Certs -> Statuses \cup {Absent}]]
    BY DEF TypeInv, TypeOK, MemoryOK
  <1>s. ASSUME NEW q \in Procs, NEW a, Stop(q, a)
        PROVE  seen'[p][c] \in {seen[p][c], Absent}
    BY <1>t, <1>s DEF Stop, Unseen
  <1>1. ASSUME NEW r \in Requests, NEW k \in Calls, Begin(r, k) PROVE UNCHANGED seen
    BY <1>1 DEF Begin
  <1>2. ASSUME NEW r \in Requests, RequestStep(r)
        PROVE  seen'[p][c] \in {seen[p][c], status[c], Absent}
    <2> r \in Procs
      BY DEF Procs
    <2>1. CASE UpdateRead(r)
      <3>1. CASE Stop(r, "error")
        BY <1>s, <3>1
      <3>2. CASE ~Stop(r, "error")
        <4>1. seen' = [seen EXCEPT ![r] = [seen[r] EXCEPT ![cur[r]] = status[cur[r]]]]
          BY <2>1, <3>2 DEF UpdateRead
        <4>2. cur[r] \in Certs /\ seen[r] \in [Certs -> Statuses \cup {Absent}]
          BY <1>t, <2>1 DEF UpdateRead, TypeInv, ControlOK, UpdateSteps
        <4> QED
          BY <1>t, <4>1, <4>2
      <3> QED
        BY <3>1, <3>2
    <2>2. CASE ~UpdateRead(r)
      <3>1. UNCHANGED seen \/ \E a \in {"ok", "error"} : Stop(r, a)
        BY <1>2, <2>2 DEF RequestStep, RevokeRead, RevokeFindHold, RevokeDropHold, RevokeInsert,
           RevokeSave, BulkPublish, ReleaseRead, ReleaseFind, ReleaseDrop, ReleaseSave, UpdateSave,
           DeleteCertificate, CARead, CASave, CRLForRead, Publish, Refuse, memVars
      <3> QED
        BY <1>s, <3>1
    <2> QED
      BY <2>1, <2>2
  <1>3. ASSUME NEW s \in Schedulers, ScanList(s) \/ ScanStep(s) \/ RefreshCRL(s)
        PROVE  seen'[p][c] \in {seen[p][c], status[c], Absent}
    <2> s \in Procs
      BY DEF Procs
    <2>1. CASE ScanList(s)
      BY <1>t, <2>1 DEF ScanList
    <2>2. CASE ScanRow(s)
      <3>1. PICK d \in Certs :
              Stop(s, "error") \/ seen' = [seen EXCEPT ![s] = [seen[s] EXCEPT ![d] = Absent]]
        BY <2>2 DEF ScanRow
      <3> QED
        BY <1>t, <1>s, <3>1
    <2>3. CASE ~ScanList(s) /\ ~ScanRow(s)
      <3>1. UNCHANGED seen \/ Stop(s, "ok")
        BY <1>3, <2>3 DEF ScanStep, ScanCARead, ScanCASave, RefreshCRL, memVars
      <3> QED
        BY <1>s, <3>1
    <2> QED
      BY <2>1, <2>2, <2>3
  <1>4. ASSUME NEW q \in Procs, CRLStep(q) \/ Fail(q)
        PROVE  seen'[p][c] \in {seen[p][c], Absent}
    <2>1. UNCHANGED seen \/ \E a \in {"ok", "error"} : Stop(q, a)
      BY <1>4 DEF CRLStep, CRLRow, CRLRevocations, CRLSave, Fail, MissHold, Refuse, memVars
    <2> QED
      BY <1>s, <2>1
  <1>5. CASE (\E d \in Certs : CertificateAges(d)) \/ AuthorityAges
    BY <1>5 DEF CertificateAges, AuthorityAges, memVars
  <1> QED
    BY <1>1, <1>2, <1>3, <1>4, <1>5 DEF Next

\* What a handler writes into the status column.
LEMMA StatusWritten ==
    ASSUME TypeInv, Next, NEW c \in Certs, status'[c] # status[c]
    PROVE  \/ status'[c] \in Ages \cup {"revoked", Absent}
           \/ \E p \in Procs : status'[c] = seen[p][c]
           \/ \E r \in Requests : RevokeSave(r) /\ call[r].reason = Hold
  <1>t. /\ status \in [Certs -> Statuses \cup {Absent}] /\ age \in [Certs -> Ages]
        /\ seen \in [Procs -> [Certs -> Statuses \cup {Absent}]]
    BY DEF TypeInv, TypeOK, TablesOK, ClocksOK, MemoryOK
  <1> USE DEF dbVars
  <1>1. ASSUME NEW r \in Requests, NEW k \in Calls, Begin(r, k) PROVE FALSE
    BY <1>1 DEF Begin
  <1>2. ASSUME NEW r \in Requests, RequestStep(r)
        PROVE  \/ status'[c] \in Ages \cup {"revoked", Absent} \/ status'[c] = seen[r][c]
               \/ RevokeSave(r) /\ call[r].reason = Hold
    <2>1. CASE RevokeSave(r)
      BY <1>t, <2>1 DEF RevokeSave
    <2>2. CASE ReleaseSave(r)
      <3>1. cur[r] \in Certs
        BY <2>2 DEF ReleaseSave, TypeInv, ControlOK, ReleaseSteps, Procs
      <3> QED
        BY <1>t, <2>2, <3>1 DEF ReleaseSave
    <2>3. CASE UpdateSave(r)
      BY <1>t, <2>3 DEF UpdateSave
    <2>4. CASE DeleteCertificate(r)
      BY <1>t, <2>4 DEF DeleteCertificate
    <2> QED
      BY <1>2, <2>1, <2>2, <2>3, <2>4
         DEF RequestStep, RevokeRead, RevokeFindHold, RevokeDropHold, RevokeInsert, BulkPublish,
             ReleaseRead, ReleaseFind, ReleaseDrop, UpdateRead, CARead, CASave, CRLForRead
  <1>3. ASSUME NEW s \in Schedulers, ScanList(s) \/ ScanStep(s) \/ RefreshCRL(s)
        PROVE  status'[c] \in Ages \/ status'[c] = seen[s][c]
    <2>1. CASE ScanRow(s)
      <3>1. PICK d \in Certs :
               \/ UNCHANGED status
               \/ status' = [status EXCEPT ![d] = IF DeriveStatus(seen[s][d], age[d]) # seen[s][d]
                                                    THEN DeriveStatus(seen[s][d], age[d]) ELSE @]
        BY <2>1 DEF ScanRow
      <3>2. DeriveStatus(seen[s][d], age[d]) \in Ages \cup {seen[s][d]}
        BY <1>t DEF DeriveStatus
      <3> QED
        BY <1>t, <3>1, <3>2
    <2> QED
      BY <1>3, <2>1 DEF ScanList, ScanStep, ScanCARead, ScanCASave, RefreshCRL
  <1>4. ASSUME NEW p \in Procs, CRLStep(p) \/ Fail(p) PROVE FALSE
    BY <1>4 DEF CRLStep, CRLRow, CRLRevocations, CRLSave, Fail
  <1>5. CASE (\E d \in Certs : CertificateAges(d)) \/ AuthorityAges
    BY <1>5 DEF CertificateAges, AuthorityAges
  <1> QED
    BY <1>1, <1>2, <1>3, <1>4, <1>5 DEF Next, Procs

HoldSteps == {"findHold", "dropHold", "releaseFind", "releaseDrop", "releaseSave"}

\* Only a certificate on hold takes a handler into the steps that lift a hold.
LEMMA HoldStepsEntered ==
    ASSUME TypeInv, Next, NEW p \in Procs, pc'[p] \in HoldSteps, pc[p] \notin HoldSteps
    PROVE  \E c \in Certs : status[c] = "held"
  <1>t. pc \in [Procs -> Steps] /\ todo \in [Procs -> SUBSET Certs]
    BY DEF TypeInv, TypeOK, ProcsOK, MemoryOK
  <1>s. ASSUME NEW q \in Procs, NEW l, l \notin HoldSteps, Goto(q, l) PROVE FALSE
    BY <1>t, <1>s DEF Goto
  <1>a. ASSUME NEW q \in Procs, NEW a, Stop(q, a) PROVE FALSE
    BY <1>a, <1>s DEF Stop, HoldSteps
  <1>b. ASSUME NEW r \in Procs, Publish(r) \/ Refuse(r) PROVE FALSE
    BY <1>a, <1>b, <1>s DEF Publish, Refuse, HoldSteps
  <1>1. ASSUME NEW r \in Requests, NEW k \in Calls, Begin(r, k) PROVE FALSE
    <2>1. FirstStep[k.kind] \notin HoldSteps
      BY CallsTyped DEF FirstStep, HoldSteps, RevokeKinds, CertKinds, CAKinds
    <2> QED
      BY <1>1, <1>s, <2>1 DEF Begin, Procs
  <1>2. ASSUME NEW r \in Requests, RequestStep(r)
        PROVE  \E c \in Certs : status[c] = "held"
    <2> r \in Procs
      BY DEF Procs
    <2>0. p = r
      <3>1. ASSUME p # r PROVE pc'[p] = pc[p]
        BY <1>2, <1>t, <3>1 DEF RequestStep, RevokeRead, RevokeFindHold, RevokeDropHold,
           RevokeInsert, RevokeSave, BulkPublish, ReleaseRead, ReleaseFind, ReleaseDrop, ReleaseSave,
           UpdateRead, UpdateSave, DeleteCertificate, CARead, CASave, CRLForRead, Publish, Refuse,
           Stop, Goto
      <3> QED
        BY <3>1
    <2>1. CASE RevokeRead(r)
      <3>1. PICK c \in todo[r] : Stop(r, "error") \/ Goto(r, AfterRead(status[c]))
        BY <2>1 DEF RevokeRead
      <3>2. AfterRead(status[c]) \in HoldSteps
        BY <1>a, <1>s, <3>1
      <3> QED
        BY <1>t, <3>2 DEF AfterRead, HoldSteps
    <2>2. CASE ReleaseRead(r)
      <3>1. status[cur[r]] = "held"
        BY <1>a, <2>2 DEF ReleaseRead, Releasable
      <3>2. cur[r] \in Certs
        BY <2>2 DEF ReleaseRead, TypeInv, ControlOK, ReleaseSteps
      <3> QED
        BY <3>1, <3>2
    <2>3. CASE RevokeFindHold(r) \/ RevokeDropHold(r) \/ ReleaseFind(r) \/ ReleaseDrop(r) \/ ReleaseSave(r)
      BY <2>0, <2>3 DEF RevokeFindHold, RevokeDropHold, ReleaseFind, ReleaseDrop, ReleaseSave, HoldSteps
    <2>4. CASE RevokeInsert(r) \/ RevokeSave(r) \/ BulkPublish(r)
      BY <1>a, <1>b, <1>s, <2>4 DEF RevokeInsert, RevokeSave, BulkPublish, HoldSteps
    <2>5. CASE UpdateRead(r) \/ UpdateSave(r) \/ DeleteCertificate(r) \/ CARead(r) \/ CASave(r) \/ CRLForRead(r)
      BY <1>a, <1>s, <2>5 DEF UpdateRead, UpdateSave, DeleteCertificate, CARead, CASave, CRLForRead, HoldSteps
    <2> QED
      BY <1>2, <2>1, <2>2, <2>3, <2>4, <2>5 DEF RequestStep
  <1>3. ASSUME NEW s \in Schedulers, ScanList(s) \/ ScanStep(s) \/ RefreshCRL(s) PROVE FALSE
    BY <1>3, <1>a, <1>s DEF ScanList, ScanStep, ScanRow, ScanCARead, ScanCASave, RefreshCRL,
       HoldSteps, Procs
  <1>4. ASSUME NEW q \in Procs, CRLStep(q) \/ Fail(q) PROVE FALSE
    BY <1>4, <1>a, <1>b, <1>s DEF CRLStep, CRLRow, CRLRevocations, CRLSave, Fail, MissHold, HoldSteps
  <1>5. CASE (\E d \in Certs : CertificateAges(d)) \/ AuthorityAges
    BY <1>5 DEF CertificateAges, AuthorityAges
  <1> QED
    BY <1>1, <1>2, <1>3, <1>4, <1>5 DEF Next

LEMMA NoHoldsStep ==
    ASSUME Hold \notin Reasons
    PROVE  TypeInv /\ NoHolds /\ [Next]_vars => NoHolds'
  <1> SUFFICES ASSUME TypeInv, NoHolds, [Next]_vars PROVE NoHolds'
    OBVIOUS
  <1>1. CASE UNCHANGED vars
    BY <1>1 DEF vars, dbVars, memVars, NoHolds
  <1>2. CASE Next
    <2>r. ASSUME NEW r \in Requests, RevokeInsert(r) \/ RevokeSave(r)
          PROVE  call[r].reason \in Reasons
      BY <2>r, CallsTyped DEF RevokeInsert, RevokeSave, TypeInv, ControlOK, RevokeSteps, Procs
    <2>1. ASSUME NEW c \in Certs PROVE status'[c] # "held"
      <3>1. "held" \notin Ages \cup {"revoked", Absent}
        BY DEF Ages, Absent
      <3> QED
        BY <1>2, <2>r, <3>1, StatusWritten DEF NoHolds
    <2>2. ASSUME NEW c \in Certs, revs'[c] # None PROVE revs'[c].reason # Hold
      <3>1. CASE revs'[c] = revs[c]
        BY <2>2, <3>1 DEF NoHolds
      <3>2. CASE revs'[c] # revs[c]
        <4>1. PICK r \in Requests : RevokeInsert(r) /\ revs'[c] = NewRevocation(r)
          BY <1>2, <2>2, <3>2, RevocationWritten
        <4> QED
          BY <2>r, <4>1 DEF NewRevocation
      <3> QED
        BY <3>1, <3>2
    <2>3. ASSUME NEW p \in Procs, NEW c \in Certs PROVE seen'[p][c] # "held"
      BY <1>2, SeenKept DEF NoHolds, Absent
    <2>4. ASSUME NEW p \in Procs PROVE pc'[p] \notin HoldSteps
      BY <1>2, HoldStepsEntered DEF NoHolds, HoldSteps
    <2> QED
      BY <2>1, <2>2, <2>3, <2>4 DEF NoHolds, HoldSteps
  <1> QED
    BY <1>1, <1>2

LEMMA NoHoldsAlways ==
    ASSUME Hold \notin Reasons PROVE Spec => []NoHolds
  <1>1. Init => NoHolds
    BY DEF Init, NoHolds, Unseen, Absent
  <1>2. TypeInv /\ NoHolds /\ [Next]_vars => NoHolds'
    BY NoHoldsStep
  <1> QED
    BY TypeAlways, <1>1, <1>2, PTL DEF Spec

\* Without holds only the deletion of the certificate takes a revocation away.
LEMMA PermanentStep ==
    ASSUME TypeInv, NoHolds, [Next]_vars, NEW c \in Certs, revs[c] # None, revs'[c] # revs[c]
    PROVE  \E d \in Requests : DeleteCertificate(d) /\ cur[d] = c /\ status[c] # Absent
  <1>1. Next
    BY DEF vars, dbVars
  <1>2. ASSUME NEW r \in Requests PROVE ~RevokeDropHold(r) /\ ~ReleaseDrop(r)
    BY DEF RevokeDropHold, ReleaseDrop, NoHolds, Procs
  <1> QED
    BY <1>1, <1>2, RevocationWritten DEF Insertable

-----------------------------------------------------------------------------
(* Where nobody uses the hold, an acknowledged revocation is the caller's.  *)

Deleted(c) == \E d \in Requests : AnsweredOK(d, "delete", c)

\* A request has inserted its row for c: it is about to save the certificate's
\* status, or has answered "ok".
HasRevoked(r, c) ==
    /\ call[r].kind = "revoke" /\ c \in call[r].certs
    /\ pc[r] = "saveRevoked" \/ result[r] = "ok"

\* The row in the table is then the one this request wrote.
OwnRow(r, c) == revs[c] # None /\ revs[c].id = r

OwnershipInv == \A r \in Requests, c \in Certs : HasRevoked(r, c) => OwnRow(r, c) \/ Deleted(c)

LEMMA SingleCert ==
    ASSUME NEW k \in Calls, k.kind # "bulk", NEW c \in k.certs, NEW d \in k.certs
    PROVE  c = d
  <1>1. k.certs \in {{x} : x \in Certs} \cup {{}}
    BY DEF Calls
  <1>2. k.certs = {} \/ \E x \in Certs : k.certs = {x}
    BY <1>1
  <1> QED
    BY <1>2

\* An "ok" is never taken back.
LEMMA AnswerStable ==
    ASSUME TypeInv, WorkInv, [Next]_vars, NEW r \in Requests, result[r] = "ok"
    PROVE  result'[r] = "ok"
  <1>t. result \in [Procs -> {"none", "ok", "error"}] /\ r \in Procs
    BY DEF TypeInv, TypeOK, ProcsOK, Procs
  <1>s. ASSUME NEW q \in Procs, NEW a, Stop(q, a) PROVE result'[r] = "ok"
    BY <1>t, <1>s DEF Stop
  <1>p. ASSUME NEW q \in Procs, Publish(q) \/ Refuse(q) PROVE result'[r] = "ok"
    BY <1>t, <1>s, <1>p DEF Publish, Refuse
  <1>1. ASSUME NEW q \in Requests, NEW k \in Calls, Begin(q, k) PROVE UNCHANGED result
    BY <1>1 DEF Begin
  <1>2. ASSUME NEW q \in Requests, RequestStep(q) PROVE result'[r] = "ok"
    <2> q \in Procs
      BY DEF Procs
    <2> QED
      BY <1>2, <1>t, <1>s, <1>p DEF RequestStep, RevokeRead, RevokeFindHold, RevokeDropHold,
         RevokeInsert, RevokeSave, BulkPublish, ReleaseRead, ReleaseFind, ReleaseDrop, ReleaseSave,
         UpdateRead, UpdateSave, DeleteCertificate, CARead, CASave, CRLForRead, memVars
  <1>3. ASSUME NEW q \in Schedulers, ScanList(q) \/ ScanStep(q) \/ RefreshCRL(q)
        PROVE  result'[r] = "ok"
    BY <1>3, <1>s DEF ScanList, ScanStep, ScanRow, ScanCARead, ScanCASave, RefreshCRL, Procs
  <1>4. ASSUME NEW q \in Procs, CRLStep(q) \/ Fail(q) PROVE result'[r] = "ok"
    BY <1>4, <1>s, <1>p DEF CRLStep, CRLRow, CRLRevocations, CRLSave, Fail, MissHold
  <1>5. CASE (\E d \in Certs : CertificateAges(d)) \/ AuthorityAges \/ UNCHANGED vars
    BY <1>5 DEF CertificateAges, AuthorityAges, vars
  <1> QED
    BY <1>1, <1>2, <1>3, <1>4, <1>5 DEF Next

LEMMA DeletedStable ==
    ASSUME TypeInv, WorkInv, [Next]_vars, NEW c \in Certs, Deleted(c)
    PROVE  Deleted(c)'
  <1>1. PICK d \in Requests : AnsweredOK(d, "delete", c)
    BY DEF Deleted
  <1>2. pc[d] # "idle"
    BY <1>1 DEF AnsweredOK, WorkInv, WorkOK
  <1>3. call'[d] = call[d] /\ result'[d] = "ok"
    BY <1>1, <1>2, CallStable, AnswerStable DEF AnsweredOK
  <1> QED
    BY <1>1, <1>3 DEF Deleted, AnsweredOK

\* A request comes to have revoked c only by inserting the row.
LEMMA RevokedByInsert ==
    ASSUME TypeInv, WorkInv, Next, NEW r \in Requests, NEW c \in Certs,
           HasRevoked(r, c)', ~HasRevoked(r, c)
    PROVE  RevokeInsert(r) /\ Insertable(cur[r]) /\ cur[r] = c
  <1>t. /\ result \in [Procs -> {"none", "ok", "error"}] /\ pc \in [Procs -> Steps]
        /\ call \in [Procs -> Calls \cup {NoCall}] /\ r \in Procs
    BY DEF TypeInv, TypeOK, ProcsOK, Procs
  <1>w. WorkOK(r)
    BY DEF WorkInv
  <1>s. ASSUME NEW q \in Procs, NEW a, Stop(q, a),
               q = r /\ a = "ok" /\ result[r] = "none" => call[r].kind # "revoke",
               UNCHANGED call
        PROVE  FALSE
    <2>1. pc'[r] # "saveRevoked" \/ pc'[r] = pc[r]
      BY <1>t, <1>s DEF Stop, Goto
    <2>2. result'[r] = "ok" => result[r] = "ok" \/ call[r].kind # "revoke"
      BY <1>t, <1>s DEF Stop
    <2> QED
      BY <1>s, <2>1, <2>2 DEF HasRevoked
  <1>m. ASSUME NEW q \in Procs, NEW l, l # "saveRevoked" \/ q # r, Goto(q, l), UNCHANGED <<call, result>>
        PROVE  FALSE
    <2>1. pc'[r] # "saveRevoked" \/ pc'[r] = pc[r]
      BY <1>t, <1>m DEF Goto
    <2> QED
      BY <1>m, <2>1 DEF HasRevoked
  <1>p. ASSUME NEW q \in Procs, Publish(q), UNCHANGED call,
               q # r \/ call[r].kind # "revoke" \/ pc[r] = "saveRevoked"
        PROVE  FALSE
    <2>1. CASE q = r
      BY <1>p, <2>1 DEF HasRevoked
    <2>2. CASE q # r
      <3>1. pc'[r] = pc[r] /\ result'[r] = result[r]
        BY <1>t, <1>p, <2>2 DEF Publish, Stop, Goto
      <3> QED
        BY <1>p, <3>1 DEF HasRevoked
    <2> QED
      BY <2>1, <2>2
  <1>r. ASSUME NEW q \in Procs, Refuse(q), UNCHANGED call PROVE FALSE
    BY <1>m, <1>r, <1>s DEF Refuse
  <1>1. ASSUME NEW q \in Requests, NEW k \in Calls, Begin(q, k) PROVE FALSE
    <2>1. FirstStep[k.kind] # "saveRevoked"
      BY CallsTyped DEF FirstStep, RevokeKinds, CertKinds, CAKinds
    <2>2. pc'[r] # "saveRevoked" \/ pc'[r] = pc[r]
      BY <1>1, <1>t, <2>1 DEF Begin, Goto, Procs
    <2>3. result' = result
      BY <1>1 DEF Begin
    <2>4. call'[r] = call[r] \/ pc[r] = "idle"
      BY <1>1, <1>t DEF Begin, Procs
    <2>5. pc[r] = "idle" => result[r] = "none"
      BY <1>w DEF WorkOK
    <2> QED
      BY <2>2, <2>3, <2>4, <2>5 DEF HasRevoked
  <1>2. ASSUME NEW q \in Requests, RequestStep(q)
        PROVE  RevokeInsert(r) /\ Insertable(cur[r]) /\ cur[r] = c
    <2> q \in Procs
      BY DEF Procs
    <2>1. CASE RevokeInsert(q)
      <3>1. CASE Refuse(q)
        BY <1>r, <2>1, <3>1 DEF RevokeInsert
      <3>2. CASE ~Refuse(q)
        <4>1. /\ Goto(q, "saveRevoked") /\ Insertable(cur[q]) /\ pc[q] = "insert"
              /\ UNCHANGED <<call, result>>
          BY <2>1, <3>2 DEF RevokeInsert
        <4>2. q = r
          BY <1>m, <4>1
        <4>3. call[r].kind = "revoke" /\ c \in call[r].certs
          BY <4>1 DEF HasRevoked
        <4>4. call[r] \in Calls /\ cur[r] \in call[r].certs
          BY <1>w, <4>1, <4>2 DEF WorkOK, RevokeSteps
        <4>5. cur[r] = c
          BY <4>3, <4>4, SingleCert
        <4> QED
          BY <2>1, <4>1, <4>2, <4>5
      <3> QED
        BY <3>1, <3>2
    <2>2. CASE RevokeRead(q)
      <3>1. PICK d \in todo[q] :
              \/ Stop(q, "error")
              \/ Goto(q, AfterRead(status[d])) /\ UNCHANGED result
        BY <2>2 DEF RevokeRead
      <3>2. AfterRead(status[d]) # "saveRevoked"
        BY DEF AfterRead
      <3> QED
        BY <1>m, <1>s, <2>2, <3>1, <3>2 DEF RevokeRead
    <2>3. CASE RevokeFindHold(q) \/ RevokeDropHold(q)
      BY <1>m, <1>r, <2>3 DEF RevokeFindHold, RevokeDropHold, memVars
    <2>4. CASE RevokeSave(q)
      <3>1. CASE Publish(q)
        <4>1. q # r \/ pc[r] = "saveRevoked"
          BY <2>4 DEF RevokeSave
        <4> QED
          BY <1>p, <2>4, <3>1, <4>1 DEF RevokeSave
      <3>2. CASE ~Publish(q)
        <4>1. /\ Bulk(q) /\ Goto(q, "next") /\ result' = [result EXCEPT ![q] = "ok"]
              /\ UNCHANGED call
          BY <2>4, <3>2 DEF RevokeSave
        <4>2. CASE q = r
          BY <4>1, <4>2 DEF Bulk, HasRevoked
        <4>3. CASE q # r
          <5>1. pc'[r] = pc[r] /\ result'[r] = result[r]
            BY <1>t, <4>1, <4>3 DEF Goto
          <5> QED
            BY <4>1, <5>1 DEF HasRevoked
        <4> QED
          BY <4>2, <4>3
      <3> QED
        BY <3>1, <3>2
    <2>5. CASE BulkPublish(q)
      <3>1. pc[q] = "next" /\ UNCHANGED call
        BY <2>5 DEF BulkPublish
      <3>2. CASE Publish(q)
        <4>1. CASE result[q] = "ok" /\ q = r
          <5>1. call[r].kind # "revoke"
            BY <1>w, <3>1, <4>1 DEF WorkOK, RevokeSteps
          <5> QED
            BY <1>p, <3>1, <3>2, <5>1
        <4>2. CASE q # r
          BY <1>p, <3>1, <3>2, <4>2
        <4>3. CASE result[q] # "ok" /\ q = r
          <5>1. Stop(q, "error")
            BY <2>5, <4>3 DEF BulkPublish
          <5> QED
            BY <1>s, <3>1, <5>1
        <4> QED
          BY <4>1, <4>2, <4>3
      <3>3. CASE Stop(q, "error")
        BY <1>s, <3>1, <3>3
      <3> QED
        BY <2>5, <3>2, <3>3 DEF BulkPublish
    <2>6. CASE ReleaseRead(q) \/ ReleaseFind(q) \/ ReleaseDrop(q) \/ UpdateRead(q) \/ CARead(q)
      BY <1>m, <1>s, <2>6 DEF ReleaseRead, ReleaseFind, ReleaseDrop, UpdateRead, CARead
    <2>7. CASE ReleaseSave(q) \/ UpdateSave(q) \/ DeleteCertificate(q) \/ CASave(q) \/ CRLForRead(q)
      <3>1. UNCHANGED call
        BY <2>7 DEF ReleaseSave, UpdateSave, DeleteCertificate, CASave, CRLForRead
      <3>2. call[q].kind # "revoke"
        BY <2>7 DEF ReleaseSave, UpdateSave, DeleteCertificate, CASave, CRLForRead, TypeInv, ControlOK,
           ReleaseSteps, UpdateSteps, CASteps, RevokeKinds
      <3>3. Publish(q) \/ (\E a \in {"ok", "error"} : Stop(q, a))
              \/ (Goto(q, "crlRow") /\ UNCHANGED result)
        BY <2>7 DEF ReleaseSave, UpdateSave, DeleteCertificate, CASave, CRLForRead
      <3> QED
        BY <1>m, <1>p, <1>s, <3>1, <3>2, <3>3
    <2> QED
      BY <1>2, <2>1, <2>2, <2>3, <2>4, <2>5, <2>6, <2>7 DEF RequestStep
  <1>3. ASSUME NEW q \in Schedulers, ScanList(q) \/ ScanStep(q) \/ RefreshCRL(q)
        PROVE  FALSE
    <2>1. q \in Procs /\ q # r
      BY ProcsAssumption DEF Procs
    <2>2. pc'[r] = pc[r] /\ result'[r] = result[r] /\ UNCHANGED call
      BY <1>3, <1>t, <2>1 DEF ScanList, ScanStep, ScanRow, ScanCARead, ScanCASave, RefreshCRL, Stop, Goto
    <2> QED
      BY <2>2 DEF HasRevoked
  <1>4. ASSUME NEW q \in Procs, CRLStep(q) PROVE FALSE
    <2>1. UNCHANGED call /\ pc[q] \in CRLSteps
      BY <1>4 DEF CRLStep, CRLRow, CRLRevocations, CRLSave, CRLSteps
    <2>2. q = r /\ call[r].kind = "revoke" => result[r] = "ok"
      BY <1>w, <2>1 DEF WorkOK
    <2> QED
      BY <1>4, <1>m, <1>s, <2>1, <2>2 DEF CRLStep, CRLRow, CRLRevocations, CRLSave
  <1>5. ASSUME NEW q \in Procs, Fail(q) PROVE FALSE
    <2>1. CASE Stop(q, "error") \/ Refuse(q)
      BY <1>5, <1>r, <1>s, <2>1 DEF Fail
    <2>2. CASE UNCHANGED <<pc, result>>
      BY <1>5, <2>2 DEF Fail, HasRevoked
    <2>3. CASE Goto(q, "insert") /\ UNCHANGED result
      BY <1>5, <1>m, <2>3 DEF Fail
    <2> QED
      BY <1>5, <2>1, <2>2, <2>3 DEF Fail, MissHold
  <1>6. CASE (\E d \in Certs : CertificateAges(d)) \/ AuthorityAges
    BY <1>6 DEF CertificateAges, AuthorityAges, HasRevoked
  <1> QED
    BY <1>1, <1>2, <1>3, <1>4, <1>5, <1>6 DEF Next

LEMMA OwnershipStep ==
    ASSUME Hold \notin Reasons
    PROVE  TypeInv /\ WorkInv /\ NoHolds /\ OwnershipInv /\ [Next]_vars => OwnershipInv'
  <1> SUFFICES ASSUME TypeInv, WorkInv, NoHolds, OwnershipInv, [Next]_vars,
                      NEW r \in Requests, NEW c \in Certs, HasRevoked(r, c)', ~Deleted(c)'
               PROVE  OwnRow(r, c)'
    BY DEF OwnershipInv
  <1>0. ~Deleted(c)
    BY DeletedStable
  <1>1. CASE HasRevoked(r, c)
    <2>1. OwnRow(r, c)
      BY <1>0, <1>1 DEF OwnershipInv
    <2>2. CASE revs'[c] = revs[c]
      BY <2>1, <2>2 DEF OwnRow
    <2>3. CASE revs'[c] # revs[c]
      <3>1. PICK d \in Requests : DeleteCertificate(d) /\ cur[d] = c /\ status[c] # Absent
        BY <2>1, <2>3, PermanentStep DEF OwnRow
      <3>2. /\ pc[d] = "delete" /\ result' = [result EXCEPT ![d] = "ok"] /\ call'[d] = call[d]
            /\ call[d].kind = "delete" /\ c \in call[d].certs
        BY <3>1 DEF DeleteCertificate, Stop, WorkInv, WorkOK
      <3>3. AnsweredOK(d, "delete", c)'
        BY <3>2 DEF AnsweredOK, TypeInv, TypeOK, ProcsOK, Procs
      <3> QED
        BY <3>3 DEF Deleted
    <2> QED
      BY <2>2, <2>3
  <1>2. CASE ~HasRevoked(r, c)
    <2>1. Next
      BY <1>2 DEF vars, HasRevoked
    <2>2. RevokeInsert(r) /\ Insertable(c) /\ cur[r] = c
      BY <1>2, <2>1, RevokedByInsert
    <2>3. revs'[c] = NewRevocation(r)
      BY <2>2 DEF RevokeInsert, TypeInv, TypeOK, TablesOK
    <2>4. NewRevocation(r) \in Revocations
      <3>1. call[r].reason \in Reasons
        BY <2>2, CallsTyped DEF RevokeInsert, TypeInv, ControlOK, RevokeSteps, Procs
      <3> QED
        BY <3>1 DEF NewRevocation, Revocations
    <2>5. revs'[c] # None
      BY <2>3, <2>4, RowAssumption
    <2> QED
      BY <2>3, <2>5 DEF OwnRow, NewRevocation
  <1> QED
    BY <1>1, <1>2

LEMMA OwnershipAlways ==
    ASSUME Hold \notin Reasons PROVE Spec => []OwnershipInv
  <1>1. Init => OwnershipInv
    BY DEF Init, OwnershipInv, HasRevoked, NoCall, Procs
  <1>2. TypeInv /\ WorkInv /\ NoHolds /\ OwnershipInv /\ [Next]_vars => OwnershipInv'
    BY OwnershipStep
  <1>3. Spec => []NoHolds
    BY NoHoldsAlways
  <1> QED
    BY TypeAlways, WorkAlways, <1>1, <1>2, <1>3, PTL DEF Spec

\* Where no caller uses certificateHold, a request to revoke that was answered
\* "ok" has a permanent revocation in the table until the certificate is deleted.
THEOREM AcknowledgedStands ==
    ASSUME Hold \notin Reasons PROVE Spec => []AcknowledgedRevocationStands
  <1>1. NoHolds /\ OwnershipInv => AcknowledgedRevocationStands
    BY DEF NoHolds, OwnershipInv, HasRevoked, OwnRow, Deleted, Permanent,
           AcknowledgedRevocationStands, AnsweredOK
  <1>2. Spec => []NoHolds /\ []OwnershipInv
    BY NoHoldsAlways, OwnershipAlways
  <1> QED
    BY <1>1, <1>2, PTL

\* And no two requests are both told that they revoked the same certificate: the
\* row bears the id of one of them.
THEOREM OneRevoker ==
    ASSUME Hold \notin Reasons PROVE Spec => []RevokedOnce
  <1>1. OwnershipInv => RevokedOnce
    BY DEF OwnershipInv, HasRevoked, OwnRow, Deleted, RevokedOnce, AnsweredOK
  <1>2. Spec => []OwnershipInv
    BY OwnershipAlways
  <1> QED
    BY <1>1, <1>2, PTL

-----------------------------------------------------------------------------
(* Who writes the authority row, and what with.                            *)

SigningSteps == {"crlRevs", "crlSave"}
AuthorityWriters == SigningSteps \cup {"caSave", "scanCASave"}

\* What one step may do to the processes and to the authority row: one process
\* moves; it reads the row, or writes back what it has read; and it goes on to
\* sign only where CanSign lets it.
LEMMA OneMoves ==
    ASSUME TypeInv, Next
    PROVE  \/ UNCHANGED <<pc, caSeen, ca>>
           \/ \E p \in Procs :
                /\ \A q \in Procs \ {p} : pc'[q] = pc[q] /\ caSeen'[q] = caSeen[q]
                /\ pc[p] \notin Resting \/ MayStart
                /\ pc'[p] \in AuthorityWriters =>
                     /\ ca' = ca
                     /\ \/ caSeen'[p].number = ca.number /\ caSeen'[p].list = ca.list
                        \/ caSeen'[p] = caSeen[p] /\ pc[p] \in AuthorityWriters
                /\ \/ ca' = ca
                   \/ /\ pc[p] \in AuthorityWriters
                      /\ \/ ca'.number = caSeen[p].number /\ ca'.list = caSeen[p].list
                         \/ ca'.number = caSeen[p].number + 1 /\ pc[p] = "crlSave"
                /\ caSeen'[p].number \in {caSeen[p].number, ca.number, 0}
                /\ pc'[p] \in SigningSteps => pc[p] \in SigningSteps \/ CanSign(p)
  <1>t. /\ pc \in [Procs -> Steps] /\ caSeen \in [Procs -> Authorities] /\ ca \in Authorities
        /\ caAge \in Ages
    BY DEF TypeInv, TypeOK, ProcsOK, MemoryOK, TablesOK, ClocksOK
  <1> DEFINE Other(p) == \A q \in Procs \ {p} : pc'[q] = pc[q] /\ caSeen'[q] = caSeen[q]
  <1> DEFINE Quietly(p) == /\ Other(p) /\ pc'[p] \notin AuthorityWriters
                         /\ caSeen'[p].number \in {caSeen[p].number, 0}
  <1>s. ASSUME NEW p \in Procs, NEW a, Stop(p, a) PROVE Quietly(p)
    BY <1>t, <1>s DEF Stop, Goto, AuthorityWriters, SigningSteps, FirstCA
  <1>g. ASSUME NEW p \in Procs, NEW l, l \notin AuthorityWriters, Goto(p, l), UNCHANGED caSeen
        PROVE  Quietly(p)
    BY <1>t, <1>g DEF Goto
  <1>p. ASSUME NEW p \in Procs, Publish(p) \/ Refuse(p) PROVE Quietly(p)
    BY <1>g, <1>p, <1>s DEF Publish, Refuse, memVars, AuthorityWriters, SigningSteps
  <1>1. ASSUME NEW r \in Requests, NEW k \in Calls, Begin(r, k)
        PROVE  Quietly(r) /\ MayStart /\ ca' = ca
    <2>1. FirstStep[k.kind] \notin AuthorityWriters
      BY CallsTyped DEF FirstStep, AuthorityWriters, SigningSteps, RevokeKinds, CertKinds, CAKinds
    <2> QED
      BY <1>1, <1>g, <2>1 DEF Begin, dbVars, Procs
  <1>2. ASSUME NEW r \in Requests, RequestStep(r), ~CARead(r), ~CASave(r)
        PROVE  Quietly(r) /\ pc[r] \notin Resting /\ ca' = ca
    <2> r \in Procs
      BY DEF Procs
    <2>1. CASE RevokeRead(r)
      <3>1. PICK c \in todo[r] :
              \/ Stop(r, "error")
              \/ Goto(r, AfterRead(status[c])) /\ UNCHANGED caSeen
        BY <2>1 DEF RevokeRead
      <3>2. AfterRead(status[c]) \notin AuthorityWriters
        BY DEF AfterRead, AuthorityWriters, SigningSteps
      <3> QED
        BY <1>g, <1>s, <2>1, <3>1, <3>2 DEF RevokeRead, dbVars, Resting
    <2>2. CASE ~RevokeRead(r)
      <3>1. ca' = ca /\ pc[r] \notin Resting
        BY <1>2, <2>2 DEF RequestStep, RevokeFindHold, RevokeDropHold, RevokeInsert, RevokeSave,
           BulkPublish, ReleaseRead, ReleaseFind, ReleaseDrop, ReleaseSave, UpdateRead, UpdateSave,
           DeleteCertificate, CRLForRead, dbVars, Resting
      <3>2. \/ \E a \in {"ok", "error"} : Stop(r, a)
            \/ Publish(r) \/ Refuse(r)
            \/ UNCHANGED caSeen /\ \E l \in Steps \ AuthorityWriters : Goto(r, l)
        BY <1>2, <2>2 DEF RequestStep, RevokeFindHold, RevokeDropHold, RevokeInsert, RevokeSave,
           BulkPublish, ReleaseRead, ReleaseFind, ReleaseDrop, ReleaseSave, UpdateRead, UpdateSave,
           DeleteCertificate, CRLForRead, memVars, Steps, RevokeSteps, ReleaseSteps, UpdateSteps,
           CRLSteps, AuthorityWriters, SigningSteps
      <3> QED
        BY <1>g, <1>p, <1>s, <3>1, <3>2
    <2> QED
      BY <2>1, <2>2
  <1>3. ASSUME NEW r \in Requests, CARead(r)
        PROVE  /\ Other(r) /\ pc[r] \notin Resting /\ ca' = ca
               /\ \/ Quietly(r)
                  \/ caSeen'[r] = ca /\ pc'[r] = "caSave"
    BY <1>3, <1>s, <1>t DEF CARead, Goto, dbVars, Resting, Procs
  <1>4. ASSUME NEW r \in Requests, CASave(r)
        PROVE  /\ Quietly(r) /\ pc[r] \in AuthorityWriters
               /\ ca'.number = caSeen[r].number /\ ca'.list = caSeen[r].list
    BY <1>4, <1>s DEF CASave, Renewed, AuthorityWriters, SigningSteps, Procs
  <1>5. ASSUME NEW s \in Schedulers, ScanList(s) \/ RefreshCRL(s)
        PROVE  Quietly(s) /\ MayStart /\ ca' = ca
    BY <1>5, <1>g DEF ScanList, RefreshCRL, dbVars, memVars, AuthorityWriters, SigningSteps, Procs
  <1>6. ASSUME NEW s \in Schedulers, ScanRow(s)
        PROVE  Quietly(s) /\ pc[s] \notin Resting /\ ca' = ca
    <2>1. UNCHANGED <<pc, caSeen>> \/ Stop(s, "error")
      BY <1>6 DEF ScanRow
    <2> QED
      BY <1>6, <1>s, <2>1 DEF ScanRow, Resting, AuthorityWriters, SigningSteps, Procs
  <1>7. ASSUME NEW s \in Schedulers, ScanCARead(s)
        PROVE  /\ Other(s) /\ pc[s] \notin Resting /\ ca' = ca
               /\ \/ Quietly(s)
                  \/ /\ caSeen'[s].number = ca.number /\ caSeen'[s].list = ca.list
                     /\ pc'[s] = "scanCASave"
    <2>1. CASE Stop(s, "ok")
      BY <1>7, <1>s, <2>1 DEF ScanCARead, dbVars, Resting, Procs
    <2>2. CASE ~Stop(s, "ok")
      <3>1. /\ caSeen' = [caSeen EXCEPT ![s] = [ca EXCEPT !.status = CAAge(ca.cert)]]
            /\ Goto(s, "scanCASave") /\ pc[s] = "scanRow" /\ ca' = ca
        BY <1>7, <2>2 DEF ScanCARead, dbVars
      <3>2. /\ [ca EXCEPT !.status = CAAge(ca.cert)].number = ca.number
            /\ [ca EXCEPT !.status = CAAge(ca.cert)].list = ca.list
        BY <1>t DEF Authorities
      <3> QED
        BY <1>t, <3>1, <3>2 DEF Goto, Resting, Procs
    <2> QED
      BY <2>1, <2>2
  <1>8. ASSUME NEW s \in Schedulers, ScanCASave(s)
        PROVE  Quietly(s) /\ pc[s] \in AuthorityWriters /\ ca' = caSeen[s]
    BY <1>8, <1>s DEF ScanCASave, AuthorityWriters, SigningSteps, Procs
  <1>9. ASSUME NEW p \in Procs, CRLRow(p)
        PROVE  /\ Other(p) /\ pc[p] \notin Resting /\ ca' = ca
               /\ \/ Quietly(p)
                  \/ caSeen'[p] = ca /\ CanSign(p)
    BY <1>9, <1>s, <1>t DEF CRLRow, Goto, dbVars, Resting
  <1>10. ASSUME NEW p \in Procs, CRLRevocations(p)
         PROVE  /\ Other(p) /\ pc[p] \in SigningSteps /\ ca' = ca /\ caSeen' = caSeen
    BY <1>10, <1>t DEF CRLRevocations, Goto, dbVars, AuthorityWriters, SigningSteps
  <1>11. ASSUME NEW p \in Procs, CRLSave(p)
         PROVE  Quietly(p) /\ pc[p] = "crlSave" /\ ca'.number = caSeen[p].number + 1
    BY <1>11, <1>s DEF CRLSave, Published, AuthorityWriters, SigningSteps
  <1>12. ASSUME NEW p \in Procs, Fail(p)
         PROVE  Quietly(p) /\ pc[p] \notin Resting /\ ca' = ca
    <2>1. \/ Stop(p, "error") \/ Refuse(p)
          \/ UNCHANGED <<pc, caSeen>> /\ pc[p] = "next"
          \/ Goto(p, "insert") /\ UNCHANGED caSeen
      BY <1>12 DEF Fail, MissHold, memVars
    <2> QED
      BY <1>12, <1>g, <1>p, <1>s, <2>1 DEF Fail, dbVars, AuthorityWriters, SigningSteps
  <1>13. CASE (\E c \in Certs : CertificateAges(c)) \/ AuthorityAges
    BY <1>13 DEF CertificateAges, AuthorityAges, dbVars, memVars
  <1>w. /\ AuthorityWriters \cap Resting = {} /\ SigningSteps \subseteq AuthorityWriters
        /\ "crlSave" \in SigningSteps /\ "caSave" \notin SigningSteps
        /\ "scanCASave" \notin SigningSteps
    BY DEF AuthorityWriters, SigningSteps, Resting
  <1> HIDE DEF Other
  <1> QED
    <2>1. CASE \E r \in Requests : (\E k \in Calls : Begin(r, k)) \/ RequestStep(r)
      <3>1. PICK r \in Requests : (\E k \in Calls : Begin(r, k)) \/ RequestStep(r)
        BY <2>1
      <3> r \in Procs
        BY DEF Procs
      <3> QED
        BY <3>1, <1>1, <1>2, <1>3, <1>4, <1>w DEF Other
    <2>2. CASE \E s \in Schedulers : ScanList(s) \/ ScanStep(s) \/ RefreshCRL(s)
      <3>1. PICK s \in Schedulers : ScanList(s) \/ ScanStep(s) \/ RefreshCRL(s)
        BY <2>2
      <3> s \in Procs
        BY DEF Procs
      <3> QED
        BY <3>1, <1>5, <1>6, <1>7, <1>8, <1>w DEF Other, ScanStep
    <2>3. CASE \E p \in Procs : CRLStep(p) \/ Fail(p)
      <3>1. PICK p \in Procs : CRLStep(p) \/ Fail(p)
        BY <2>3
      <3> QED
        BY <3>1, <1>9, <1>10, <1>11, <1>12, <1>w DEF Other, CRLStep
    <2> QED
      BY <2>1, <2>2, <2>3, <1>13 DEF Next

-----------------------------------------------------------------------------
(* A protected key signs nothing without its passphrase.                   *)

SomePass == \E r \in Requests : call[r].pass

\* Every copy of the row with a list on it was made after some request brought
\* the passphrase, and who is about to sign has brought it.
PassInv ==
    Protected =>
       /\ ca.number > 0 => SomePass
       /\ \A p \in Procs : caSeen[p].number > 0 => SomePass
       /\ \A p \in Procs : pc[p] \in SigningSteps => p \in Requests /\ call[p].pass
       /\ \A s \in Schedulers : call[s] = NoCall

\* Only requests are given calls.
LEMMA JobsNotCalled ==
    ASSUME TypeInv, [Next]_vars, NEW s \in Schedulers
    PROVE  call'[s] = call[s]
  <1>1. ASSUME NEW q \in Requests, NEW k \in Calls, Begin(q, k) PROVE call'[s] = call[s]
    BY <1>1, ProcsAssumption DEF Begin, TypeInv, TypeOK, ProcsOK, Procs
  <1>2. ASSUME NEW q \in Requests, RequestStep(q) PROVE UNCHANGED call
    BY <1>2 DEF RequestStep, RevokeRead, RevokeFindHold, RevokeDropHold, RevokeInsert, RevokeSave,
       BulkPublish, ReleaseRead, ReleaseFind, ReleaseDrop, ReleaseSave, UpdateRead, UpdateSave,
       DeleteCertificate, CARead, CASave, CRLForRead
  <1>3. ASSUME NEW q \in Schedulers, ScanList(q) \/ ScanStep(q) \/ RefreshCRL(q)
        PROVE  UNCHANGED call
    BY <1>3 DEF ScanList, ScanStep, ScanRow, ScanCARead, ScanCASave, RefreshCRL
  <1>4. ASSUME NEW p \in Procs, CRLStep(p) \/ Fail(p) PROVE UNCHANGED call
    BY <1>4 DEF CRLStep, CRLRow, CRLRevocations, CRLSave, Fail
  <1>5. CASE (\E c \in Certs : CertificateAges(c)) \/ AuthorityAges \/ UNCHANGED vars
    BY <1>5 DEF CertificateAges, AuthorityAges, vars
  <1> QED
    BY <1>1, <1>2, <1>3, <1>4, <1>5 DEF Next

LEMMA PassStep == TypeInv /\ WorkInv /\ PassInv /\ [Next]_vars => PassInv'
  <1> SUFFICES ASSUME TypeInv, WorkInv, PassInv, [Next]_vars, Protected PROVE PassInv'
    BY DEF PassInv
  <1>t. ca \in Authorities /\ caSeen \in [Procs -> Authorities]
    BY DEF TypeInv, TypeOK, TablesOK, MemoryOK
  <1>n. ca.number \in Nat /\ \A p \in Procs : caSeen[p].number \in Nat
    BY <1>t DEF Authorities
  <1>s. ASSUME NEW r \in Requests, call[r].pass PROVE call'[r] = call[r] /\ call'[r].pass
    <2>1. pc[r] # "idle"
      BY <1>s DEF WorkInv, WorkOK, NoCall
    <2> QED
      BY <1>s, <2>1, CallStable
  <1>p. SomePass => SomePass'
    BY <1>s DEF SomePass
  <1>1. CASE UNCHANGED <<pc, ca, caSeen>>
    BY <1>1, <1>p, <1>s, JobsNotCalled DEF PassInv
  <1>2. CASE ~UNCHANGED <<pc, ca, caSeen>>
    <2>1. Next
      BY <1>2 DEF vars, dbVars, memVars
    <2>2. PICK p \in Procs :
            /\ \A q \in Procs \ {p} : pc'[q] = pc[q] /\ caSeen'[q] = caSeen[q]
            /\ \/ ca' = ca
               \/ ca'.number = caSeen[p].number
               \/ pc[p] = "crlSave"
            /\ caSeen'[p].number \in {caSeen[p].number, ca.number, 0}
            /\ pc'[p] \in SigningSteps => pc[p] \in SigningSteps \/ CanSign(p)
      BY <1>2, <2>1, OneMoves
    <2>3. pc[p] \in SigningSteps \/ CanSign(p) => p \in Requests /\ call[p].pass
      BY DEF PassInv, CanSign, NoCall, Procs
    <2>4. ca'.number > 0 => SomePass
      BY <2>2, <2>3 DEF PassInv, SomePass, SigningSteps
    <2>5. \A q \in Procs : caSeen'[q].number > 0 => SomePass
      BY <2>2 DEF PassInv
    <2>6. \A q \in Procs : pc'[q] \in SigningSteps => q \in Requests /\ call[q].pass
      BY <2>2, <2>3 DEF PassInv
    <2> QED
      BY <1>p, <1>s, <2>4, <2>5, <2>6, JobsNotCalled DEF PassInv
  <1> QED
    BY <1>1, <1>2

\* A CA whose key needs a passphrase has a list, and a process is about to sign
\* one, only if a request brought the passphrase: for any number of requests,
\* replicas and failures, however their copies of the authority row overtake
\* each other, neither a job of the scheduler nor a download signs for it.
THEOREM ProtectedStaysUnsigned == Spec => []ProtectedListNeedsPassphrase
  <1>1. Init => PassInv
    BY DEF Init, PassInv, FirstCA, SigningSteps, Procs
  <1>2. PassInv => ProtectedListNeedsPassphrase
    BY DEF PassInv, SomePass, SigningSteps, ProtectedListNeedsPassphrase
  <1> QED
    BY TypeAlways, WorkAlways, PassStep, <1>1, <1>2, PTL DEF Spec

=============================================================================
