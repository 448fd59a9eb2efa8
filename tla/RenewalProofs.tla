--------------------------- MODULE RenewalProofs ---------------------------
(* Theorems about Renewal, for every value of its constants.               *)
EXTENDS Renewal, FiniteSetTheorems, TLAPS

AllKinds == {"renew", "bulkRenew", "redeploy"} \cup CertKinds \cup TargetKinds

\* What the arguments of a call, or of a job, are.
LEMMA CallsTyped ==
    \A k \in Calls \cup Jobs \cup {Blank} :
       /\ k.kind \in AllKinds \cup {"autoRenew", "deployPending", "none"}
       /\ k.certs \in SUBSET Certs
       /\ k.flag \in BOOLEAN
       /\ k.days \in Nat
       /\ k.kind \in TargetKinds => k.target \in Targets
       /\ k.kind = "retarget" => k.place \in Places
  <1>1. \A k \in Jobs \cup {Blank} :
          /\ k.kind \in {"autoRenew", "deployPending", "none"}
          /\ k.certs = {} /\ k.flag = FALSE /\ k.days = 0
    BY DEF Jobs, Blank, Job
  <1>2. \A k \in TargetCalls :
          /\ k.kind \in TargetKinds
          /\ k.certs = {} /\ k.flag \in BOOLEAN /\ k.days = 0 /\ k.target \in Targets
          /\ k.kind = "retarget" => k.place \in Places
    BY DEF TargetCalls, TargetKinds
  <1>3. \A k \in CertCalls :
          /\ k.kind \in {"renew", "bulkRenew", "redeploy"} \cup CertKinds
          /\ k.kind \notin TargetKinds
    BY DEF CertCalls, CertKinds, TargetKinds
  <1>4. \A k \in CertCalls : k.certs \in SUBSET Certs
    <2>1. One \subseteq SUBSET Certs
      BY DEF One
    <2> QED
      BY <2>1 DEF CertCalls
  <1>5. \A k \in CertCalls : k.flag \in BOOLEAN
    <2>1. Rekeys \subseteq BOOLEAN
      BY Zenon DEF Rekeys
    <2> QED
      BY <2>1 DEF CertCalls
  <1>6. \A k \in CertCalls : k.days \in Nat
    <2>1. Validities \cup {0} \subseteq Nat /\ Windows \subseteq Nat
      BY RenewalDaysAssumption
    <2>2. \A k \in CertCalls : k.days \in (Validities \cup {0}) \cup Windows
      BY DEF CertCalls
    <2> QED
      BY <2>1, <2>2
  <1>7. \A k \in {Blank} \cup Jobs : k.flag \in BOOLEAN
    BY <1>1, Zenon
  <1>8. \A k \in {Blank} \cup Jobs : k.kind \notin TargetKinds
    BY <1>1 DEF TargetKinds
  <1> QED
    BY <1>1, <1>2, <1>3, <1>4, <1>5, <1>6, <1>7, <1>8 DEF Calls, AllKinds, TargetKinds

LEMMA CallKinds == \A k \in Calls : k.kind \in AllKinds /\ k.kind \in Kinds
  BY RenewalKindsAssumption DEF Calls, AllKinds

LEMMA WindowTyped ==
    ASSUME NEW a \in BOOLEAN, NEW d \in Nat, NEW v \in Nat PROVE Window(a, d, v) \in Nat
  BY DEF Window

LEMMA RowsTyped ==
    /\ FirstRow \in CertRows /\ NoRow \in CertRows
    /\ \A t \in Targets : NewTarget(t) \in TargetRows /\ NoTarget(t) \in TargetRows
    /\ Unread \in [Targets -> TargetRows]
  <1>1. Window(TRUE, 30, FirstValidity) \in Nat
    BY WindowTyped, RenewalDaysAssumption
  <1>2. FirstRow \in CertRows /\ NoRow \in CertRows
    BY <1>1, RenewalDaysAssumption DEF FirstRow, NoRow, CertRows, Statuses
  <1>3. \A t \in Targets : NewTarget(t) \in TargetRows /\ NoTarget(t) \in TargetRows
    BY RenewalTargetsAssumption DEF NewTarget, NoTarget, TargetRows
  <1> QED
    BY <1>2, <1>3 DEF Unread

\* Where a process is tells what it is doing: a step on a certificate or on a
\* target has one, an edit has the arguments it needs.
StepsOK ==
    \A p \in Procs :
       /\ pc[p] \in {"insert", "switchOff", "updateRead", "updateSave", "setStatus"} => cur[p] \in Certs
       /\ pc[p] \in PushSteps \cup {"switchOff", "deployGet", "deployTargets"} => subject[p] \in Certs
       /\ pc[p] \in {"deliver", "record"} => tcur[p] \in Targets
       /\ pc[p] \in {"targetRead", "targetSave", "targetInsert", "targetDelete", "testRead"}
            => call[p].kind \in TargetKinds
       /\ pc[p] \in {"targetRead", "targetSave"} => call[p].kind = "retarget"

TypeInv == TypeOK /\ StepsOK

\* A step that leaves the other processes alone is judged by its own process.
LEMMA StepsElsewhere ==
    ASSUME StepsOK, NEW p \in Procs,
           \A q \in Procs \ {p} :
              /\ pc'[q] = pc[q] /\ call'[q] = call[q] /\ cur'[q] = cur[q]
              /\ subject'[q] = subject[q] /\ tcur'[q] = tcur[q],
           pc'[p] \in {"insert", "switchOff", "updateRead", "updateSave", "setStatus"} => cur'[p] \in Certs,
           pc'[p] \in PushSteps \cup {"switchOff", "deployGet", "deployTargets"} => subject'[p] \in Certs,
           pc'[p] \in {"deliver", "record"} => tcur'[p] \in Targets,
           pc'[p] \in {"targetRead", "targetSave", "targetInsert", "targetDelete", "testRead"}
              => call'[p].kind \in TargetKinds,
           pc'[p] \in {"targetRead", "targetSave"} => call'[p].kind = "retarget"
    PROVE  StepsOK'
  <1> USE DEF StepsOK
  <1> SUFFICES ASSUME NEW q \in Procs
               PROVE  /\ pc'[q] \in {"insert", "switchOff", "updateRead", "updateSave", "setStatus"} => cur'[q] \in Certs
                      /\ pc'[q] \in PushSteps \cup {"switchOff", "deployGet", "deployTargets"} => subject'[q] \in Certs
                      /\ pc'[q] \in {"deliver", "record"} => tcur'[q] \in Targets
                      /\ pc'[q] \in {"targetRead", "targetSave", "targetInsert", "targetDelete", "testRead"}
                           => call'[q].kind \in TargetKinds
                      /\ pc'[q] \in {"targetRead", "targetSave"} => call'[q].kind = "retarget"
    OBVIOUS
  <1>1. CASE q = p
    BY <1>1
  <1>2. CASE q # p
    <2>1. /\ pc'[q] = pc[q] /\ call'[q] = call[q] /\ cur'[q] = cur[q]
          /\ subject'[q] = subject[q] /\ tcur'[q] = tcur[q]
      BY <1>2
    <2> QED
      BY <2>1
  <1> QED
    BY <1>1, <1>2

LEMMA InitTyped == Init => TypeInv
  <1> SUFFICES ASSUME Init PROVE TypeInv
    OBVIOUS
  <1>1. TablesOK
    BY RowsTyped, RenewalBoundAssumption DEF Init, TablesOK, Certs
  <1>2. ControlOK
    BY DEF Init, ControlOK, Resting
  <1>3. MemoryOK
    BY RowsTyped DEF Init, MemoryOK
  <1>4. StepsOK
    BY DEF Init, StepsOK, PushSteps
  <1> QED
    BY <1>1, <1>2, <1>3, <1>4 DEF TypeInv, TypeOK, Init

\* A handler that stops leaves a well-typed, resting process.
LEMMA StopTyped ==
    ASSUME TypeInv, NEW p \in Procs, Stop(p)
    PROVE  ControlOK' /\ MemoryOK' /\ StepsOK'
  <1>1. ControlOK'
    BY DEF Stop, Goto, TypeInv, TypeOK, ControlOK, Resting
  <1>2. MemoryOK'
    BY RowsTyped DEF Stop, TypeInv, TypeOK, MemoryOK
  <1>3. /\ pc'[p] \in Resting
        /\ \A q \in Procs \ {p} : /\ pc'[q] = pc[q] /\ call'[q] = call[q] /\ cur'[q] = cur[q]
                                 /\ subject'[q] = subject[q] /\ tcur'[q] = tcur[q]
    BY DEF Stop, Goto, TypeInv, TypeOK, ControlOK, MemoryOK, Resting
  <1>4. StepsOK'
    BY <1>3 DEF TypeInv, StepsOK, PushSteps, Resting
  <1> QED
    BY <1>1, <1>2, <1>4

LEMMA DeployedTyped ==
    ASSUME TypeInv, NEW p \in Procs, Deployed(p)
    PROVE  ControlOK' /\ MemoryOK' /\ StepsOK'
  <1>1. CASE Stop(p)
    BY <1>1, StopTyped
  <1>2. CASE /\ Goto(p, "renewNext")
             /\ subject' = [subject EXCEPT ![p] = None]
             /\ tseen' = [tseen EXCEPT ![p] = Unread]
             /\ UNCHANGED <<call, due, cur, seen, todo, tcur, outcome>>
    <2>1. ControlOK'
      BY <1>2 DEF Goto, TypeInv, TypeOK, ControlOK, RenewSteps
    <2>2. MemoryOK'
      BY <1>2, RowsTyped DEF TypeInv, TypeOK, MemoryOK
    <2>3. StepsOK'
      BY <1>2 DEF Goto, TypeInv, TypeOK, ControlOK, MemoryOK, StepsOK, PushSteps
    <2> QED
      BY <2>1, <2>2, <2>3
  <1> QED
    BY <1>1, <1>2 DEF Deployed

\* The target rows a process has read are rows.
LEMMA ReadTyped ==
    ASSUME TypeInv
    PROVE  /\ [t \in Targets |-> IF t \in Enabled THEN targets[t] ELSE NoTarget(t)]
                 \in [Targets -> TargetRows]
           /\ \A t \in Targets : [Unread EXCEPT ![t] = targets[t]] \in [Targets -> TargetRows]
           /\ Enabled \in SUBSET Targets
  BY RowsTyped DEF TypeInv, TypeOK, TablesOK, Enabled

\* What the steps that write a table write is a row of it.
LEMMA RenewInsertTables ==
    ASSUME TypeInv, NEW p \in Procs, RenewInsert(p)
    PROVE  TablesOK' /\ failures' \in Nat /\ pushErrors' \in Nat
  <1>1. seen[p] \in CertRows /\ cur[p] \in Certs
    BY DEF RenewInsert, TypeInv, TypeOK, MemoryOK, StepsOK
  <1>2. call[p].days \in Nat
    BY CallsTyped DEF TypeInv, TypeOK, ControlOK
  <1> DEFINE v == IF call[p].days > 0 THEN call[p].days ELSE seen[p].validity
  <1>3. v \in Nat /\ Window(seen[p].auto, seen[p].window, v) \in Nat
    BY <1>1, <1>2, WindowTyped DEF CertRows
  <1>4. now + v \in Nat
    BY <1>3 DEF TypeInv, TypeOK, TablesOK
  <1>5. Renewed(p) = [status |-> "active", auto |-> seen[p].auto, window |-> Window(seen[p].auto, seen[p].window, v),
                      validity |-> v, notAfter |-> now + v, key |-> TRUE, from |-> cur[p]]
    BY DEF Renewed
  <1> HIDE DEF v
  <1>6. Renewed(p) \in CertRows
    BY <1>1, <1>3, <1>4, <1>5 DEF CertRows, Statuses
  <1> QED
    BY <1>6 DEF RenewInsert, counts, TypeInv, TypeOK, TablesOK

LEMMA SwitchOffTables ==
    ASSUME TypeInv, NEW p \in Procs, SwitchOff(p)
    PROVE  TablesOK' /\ failures' \in Nat /\ pushErrors' \in Nat
  <1>1. cur[p] \in Certs /\ rows[cur[p]] \in CertRows
    BY DEF SwitchOff, TypeInv, TypeOK, TablesOK, StepsOK
  <1>2. rows[cur[p]].auto \in BOOLEAN
    BY <1>1 DEF CertRows
  <1>3. [rows[cur[p]] EXCEPT !.auto = IF Exists(cur[p]) THEN FALSE ELSE @] \in CertRows
    BY <1>1, <1>2 DEF CertRows
  <1>4. rows' = [rows EXCEPT ![cur[p]] = [rows[cur[p]] EXCEPT !.auto = IF Exists(cur[p]) THEN FALSE ELSE @]]
    BY DEF SwitchOff
  <1>5. rows' \in [Certs -> CertRows]
    BY <1>1, <1>3, <1>4 DEF TypeInv, TypeOK, TablesOK
  <1> QED
    BY <1>5 DEF SwitchOff, counts, TypeInv, TypeOK, TablesOK

LEMMA DeliverTables ==
    ASSUME TypeInv, NEW p \in Procs, Deliver(p)
    PROVE  TablesOK' /\ failures' \in Nat /\ pushErrors' \in Nat
  <1>1. subject[p] \in Certs /\ tseen[p][tcur[p]].place \in Places
    BY DEF Deliver, TypeInv, TypeOK, MemoryOK, StepsOK, PushSteps, TargetRows
  <1> QED
    BY <1>1 DEF Deliver, TypeInv, TypeOK, TablesOK

LEMMA RecordTables ==
    ASSUME TypeInv, NEW p \in Procs, Record(p)
    PROVE  TablesOK' /\ failures' \in Nat /\ pushErrors' \in Nat
  <1>1. tseen[p][tcur[p]] \in TargetRows /\ subject[p] \in Certs /\ outcome[p] \in BOOLEAN
    BY DEF Record, TypeInv, TypeOK, MemoryOK, StepsOK, PushSteps
  <1>2. Recorded(p) \in TargetRows
    BY <1>1 DEF Recorded, TargetRows
  <1> QED
    BY <1>2 DEF Record, counts, TypeInv, TypeOK, TablesOK

LEMMA UpdateSaveTables ==
    ASSUME TypeInv, NEW p \in Procs, UpdateSave(p)
    PROVE  TablesOK' /\ failures' \in Nat /\ pushErrors' \in Nat
  <1>1. seen[p] \in CertRows /\ call[p].flag \in BOOLEAN /\ call[p].days \in Nat
    BY CallsTyped DEF TypeInv, TypeOK, MemoryOK, ControlOK
  <1>2. [seen[p] EXCEPT !.auto = call[p].flag, !.window = call[p].days] \in CertRows
    BY <1>1 DEF CertRows
  <1> QED
    BY <1>2 DEF UpdateSave, counts, TypeInv, TypeOK, TablesOK

LEMMA AfterTyped == \A kind, status : status \in Statuses => After(kind, status) \in Statuses
  BY DEF After, Statuses

LEMMA SetStatusTables ==
    ASSUME TypeInv, NEW p \in Procs, SetStatus(p)
    PROVE  TablesOK' /\ failures' \in Nat /\ pushErrors' \in Nat
  <1>1. cur[p] \in Certs /\ rows[cur[p]] \in CertRows
    BY DEF SetStatus, TypeInv, TypeOK, TablesOK, StepsOK
  <1>2. After(call[p].kind, rows[cur[p]].status) \in Statuses
    BY <1>1, AfterTyped DEF CertRows
  <1> QED
    BY <1>1, <1>2 DEF SetStatus, counts, TypeInv, TypeOK, TablesOK, CertRows

LEMMA TargetSaveTables ==
    ASSUME TypeInv, NEW p \in Procs, TargetSave(p)
    PROVE  TablesOK' /\ failures' \in Nat /\ pushErrors' \in Nat
  <1> DEFINE t == call[p].target
  <1>1. t \in Targets /\ call[p].place \in Places /\ call[p].flag \in BOOLEAN
    BY CallsTyped DEF TargetSave, TypeInv, TypeOK, ControlOK, StepsOK
  <1>2. tseen[p][t] \in TargetRows
    BY <1>1 DEF TypeInv, TypeOK, MemoryOK
  <1>3. [tseen[p][t] EXCEPT !.enabled = call[p].flag, !.place = call[p].place] \in TargetRows
    BY <1>1, <1>2 DEF TargetRows
  <1>4. tseen[p][t].last # None => tseen[p][t].last \in Certs
    BY <1>2 DEF TargetRows
  <1>5. carried' \subseteq Targets \X Places \X Certs
    BY <1>1, <1>4 DEF TargetSave, TypeInv, TypeOK, TablesOK
  <1>6. targets' \in [Targets -> TargetRows]
    BY <1>1, <1>3 DEF TargetSave, TypeInv, TypeOK, TablesOK
  <1>7. UNCHANGED <<rows, served, delivered, now, failures, pushErrors>>
    BY DEF TargetSave, counts
  <1> QED
    BY <1>5, <1>6, <1>7 DEF TypeInv, TypeOK, TablesOK

LEMMA TargetInsertTables ==
    ASSUME TypeInv, NEW p \in Procs, TargetInsert(p)
    PROVE  TablesOK' /\ failures' \in Nat /\ pushErrors' \in Nat
  BY RowsTyped DEF TargetInsert, counts, TypeInv, TypeOK, TablesOK

LEMMA TargetDeleteTables ==
    ASSUME TypeInv, NEW p \in Procs, TargetDelete(p)
    PROVE  TablesOK' /\ failures' \in Nat /\ pushErrors' \in Nat
  BY DEF TargetDelete, counts, TypeInv, TypeOK, TablesOK, TargetRows

\* A step of a call or a job keeps every process well typed.
LEMMA RenewTyped ==
    ASSUME TypeInv, NEW p \in Procs, RenewStep(p)
    PROVE  TypeInv'
  <1>1. CASE RenewRead(p)
    <2>1. TablesOK' /\ failures' \in Nat /\ pushErrors' \in Nat
      BY <1>1 DEF RenewRead, world, counts, TypeInv, TypeOK, TablesOK
    <2>2. ControlOK'
      BY <1>1 DEF RenewRead, Goto, memory, TypeInv, TypeOK, ControlOK, RenewSteps, PushSteps, JobSteps, EditSteps, Resting, Jobs
    <2>3. MemoryOK'
      <3>1. PICK c \in due[p] : due' = [due EXCEPT ![p] = @ \ {c}]
                              /\ \/ cur' = [cur EXCEPT ![p] = c] /\ seen' = [seen EXCEPT ![p] = rows[c]]
                                 \/ UNCHANGED <<cur, seen>>
        BY <1>1 DEF RenewRead
      <3>2. c \in Certs /\ rows[c] \in CertRows
        BY <3>1 DEF TypeInv, TypeOK, MemoryOK, TablesOK
      <3>3. due' \in [Procs -> SUBSET Certs]
        BY <3>1 DEF TypeInv, TypeOK, MemoryOK
      <3>4. cur \in [Procs -> Certs \cup {None}] /\ seen \in [Procs -> CertRows]
        BY DEF TypeInv, TypeOK, MemoryOK
      <3>5. cur' \in [Procs -> Certs \cup {None}]
        BY <3>1, <3>2, <3>4
      <3>6. seen' \in [Procs -> CertRows]
        BY <3>1, <3>2, <3>4
      <3> QED
        BY <1>1, <3>3, <3>5, <3>6 DEF RenewRead, TypeInv, TypeOK, MemoryOK
    <2>4. StepsOK'
      <3>1. \/ pc'[p] = "renewNext"
            \/ pc'[p] = "insert" /\ cur'[p] \in Certs
        BY <1>1 DEF RenewRead, Goto, TypeInv, TypeOK, ControlOK, MemoryOK
      <3>2. \A q \in Procs \ {p} :
              pc'[q] = pc[q] /\ call'[q] = call[q] /\ cur'[q] = cur[q]
                /\ subject'[q] = subject[q] /\ tcur'[q] = tcur[q]
        BY <1>1 DEF RenewRead, Goto, TypeInv, TypeOK, ControlOK, MemoryOK
      <3>3. pc'[p] \notin PushSteps \cup {"switchOff", "deployGet", "deployTargets"}
        BY <3>1 DEF PushSteps
      <3> QED
        BY <3>1, <3>2, <3>3, StepsElsewhere DEF TypeInv
    <2> QED
      BY <2>1, <2>2, <2>3, <2>4 DEF TypeInv, TypeOK
  <1>2. CASE RenewDone(p)
    <2>1. TablesOK' /\ failures' \in Nat /\ pushErrors' \in Nat
      BY <1>2 DEF RenewDone, world, counts, TypeInv, TypeOK, TablesOK
    <2>2. CASE Stop(p)
      BY <2>1, <2>2, StopTyped DEF TypeInv, TypeOK
    <2>3. CASE ~Stop(p)
      <3>1. ControlOK'
        BY <1>2, <2>3 DEF RenewDone, Goto, memory, TypeInv, TypeOK, ControlOK, RenewSteps, PushSteps, JobSteps, EditSteps, Resting, Jobs
      <3>2. MemoryOK'
        BY <1>2, <2>3, RowsTyped DEF RenewDone, memory, TypeInv, TypeOK, TablesOK, MemoryOK, Enabled
      <3>3. StepsOK'
        BY <1>2, <2>3 DEF RenewDone, Goto, memory, TypeInv, TypeOK, ControlOK, MemoryOK, StepsOK, PushSteps
      <3> QED
        BY <2>1, <3>1, <3>2, <3>3 DEF TypeInv, TypeOK
    <2> QED
      BY <2>2, <2>3
  <1>3. CASE RenewInsert(p)
    <2>1. TablesOK' /\ failures' \in Nat /\ pushErrors' \in Nat
      BY <1>3, RenewInsertTables
    <2>2. ControlOK'
      BY <1>3 DEF RenewInsert, Goto, memory, TypeInv, TypeOK, ControlOK, RenewSteps, PushSteps, JobSteps, EditSteps, Resting, Jobs
    <2>3. MemoryOK'
      <3>1. cur' \in [Procs -> Certs \cup {None}] /\ subject' \in [Procs -> Certs \cup {None}]
        BY <1>3 DEF RenewInsert, Fresh, TypeInv, TypeOK, MemoryOK
      <3>2. seen' \in [Procs -> CertRows]
        BY <1>3, RowsTyped DEF RenewInsert, TypeInv, TypeOK, MemoryOK
      <3> QED
        BY <1>3, <3>1, <3>2 DEF RenewInsert, TypeInv, TypeOK, MemoryOK
    <2>4. StepsOK'
      <3>1. /\ (pc'[p] = "switchOff" /\ cur'[p] = cur[p]) \/ pc'[p] = "deployGet"
            /\ cur[p] \in Certs /\ subject'[p] \in Certs
        BY <1>3 DEF RenewInsert, Fresh, Goto, TypeInv, TypeOK, ControlOK, MemoryOK, StepsOK
      <3>2. \A q \in Procs \ {p} : pc'[q] = pc[q] /\ cur'[q] = cur[q] /\ subject'[q] = subject[q]
        BY <1>3 DEF RenewInsert, Goto, TypeInv, TypeOK, ControlOK, MemoryOK
      <3> QED
        BY <1>3, <3>1, <3>2 DEF RenewInsert, TypeInv, StepsOK, PushSteps
    <2> QED
      BY <2>1, <2>2, <2>3, <2>4 DEF TypeInv, TypeOK
  <1>4. CASE SwitchOff(p)
    <2>1. TablesOK' /\ failures' \in Nat /\ pushErrors' \in Nat
      BY <1>4, SwitchOffTables
    <2>2. ControlOK'
      BY <1>4 DEF SwitchOff, Goto, memory, TypeInv, TypeOK, ControlOK, RenewSteps, PushSteps, JobSteps, EditSteps, Resting, Jobs
    <2>3. MemoryOK'
      BY <1>4, RowsTyped DEF SwitchOff, memory, TypeInv, TypeOK, TablesOK, MemoryOK, Enabled
    <2>4. StepsOK'
      BY <1>4 DEF SwitchOff, Goto, TypeInv, TypeOK, ControlOK, MemoryOK, StepsOK, PushSteps
    <2> QED
      BY <2>1, <2>2, <2>3, <2>4 DEF TypeInv, TypeOK
  <1>5. CASE DeployGet(p)
    <2>1. TablesOK' /\ failures' \in Nat /\ pushErrors' \in Nat
      BY <1>5 DEF DeployGet, world, counts, TypeInv, TypeOK, TablesOK
    <2>2. CASE Deployed(p)
      BY <2>1, <2>2, DeployedTyped DEF TypeInv, TypeOK
    <2>3. CASE ~Deployed(p)
      <3>1. ControlOK'
        BY <1>5, <2>3 DEF DeployGet, Goto, memory, TypeInv, TypeOK, ControlOK, RenewSteps, PushSteps, JobSteps, EditSteps, Resting, Jobs
      <3>2. MemoryOK'
        BY <1>5, <2>3, RowsTyped DEF DeployGet, memory, TypeInv, TypeOK, TablesOK, MemoryOK, Enabled
      <3>3. StepsOK'
        BY <1>5, <2>3 DEF DeployGet, Goto, memory, TypeInv, TypeOK, ControlOK, MemoryOK, StepsOK, PushSteps
      <3> QED
        BY <2>1, <3>1, <3>2, <3>3 DEF TypeInv, TypeOK
    <2> QED
      BY <2>2, <2>3
  <1>6. CASE DeployTargets(p)
    <2>1. TablesOK' /\ failures' \in Nat /\ pushErrors' \in Nat
      BY <1>6 DEF DeployTargets, world, counts, TypeInv, TypeOK, TablesOK
    <2>2. ControlOK'
      BY <1>6 DEF DeployTargets, Goto, memory, TypeInv, TypeOK, ControlOK, RenewSteps, PushSteps, JobSteps, EditSteps, Resting, Jobs
    <2>3. MemoryOK'
      BY <1>6, ReadTyped DEF DeployTargets, TypeInv, TypeOK, MemoryOK
    <2>4. StepsOK'
      BY <1>6 DEF DeployTargets, Goto, memory, TypeInv, TypeOK, ControlOK, MemoryOK, StepsOK, PushSteps
    <2> QED
      BY <2>1, <2>2, <2>3, <2>4 DEF TypeInv, TypeOK
  <1> QED
    BY <1>1, <1>2, <1>3, <1>4, <1>5, <1>6 DEF RenewStep

LEMMA PushTyped ==
    ASSUME TypeInv, NEW p \in Procs, PushStep(p)
    PROVE  TypeInv'
  <1>1. CASE PushStart(p)
    <2>1. TablesOK' /\ failures' \in Nat /\ pushErrors' \in Nat
      BY <1>1 DEF PushStart, world, counts, TypeInv, TypeOK, TablesOK
    <2>2. CASE Stop(p)
      BY <2>1, <2>2, StopTyped DEF TypeInv, TypeOK
    <2>3. CASE ~Stop(p)
      <3>1. ControlOK'
        BY <1>1, <2>3 DEF PushStart, Goto, memory, TypeInv, TypeOK, ControlOK, RenewSteps, PushSteps, JobSteps, EditSteps, Resting, Jobs
      <3>2. MemoryOK'
        <4>1. todo' \in [Procs -> SUBSET Targets]
          BY <1>1, <2>3 DEF PushStart, TypeInv, TypeOK, MemoryOK
        <4>2. tcur' \in [Procs -> Targets \cup {None}]
          BY <1>1, <2>3 DEF PushStart, TypeInv, TypeOK, MemoryOK
        <4> QED
          BY <1>1, <2>3, <4>1, <4>2 DEF PushStart, TypeInv, TypeOK, MemoryOK
      <3>3. StepsOK'
        BY <1>1, <2>3 DEF PushStart, Goto, memory, TypeInv, TypeOK, ControlOK, MemoryOK, StepsOK, PushSteps
      <3> QED
        BY <2>1, <3>1, <3>2, <3>3 DEF TypeInv, TypeOK
    <2> QED
      BY <2>2, <2>3
  <1>2. CASE PushDone(p)
    <2>1. TablesOK' /\ failures' \in Nat /\ pushErrors' \in Nat
      BY <1>2 DEF PushDone, world, counts, TypeInv, TypeOK, TablesOK
    <2>2. ControlOK' /\ MemoryOK' /\ StepsOK'
      BY <1>2, DeployedTyped DEF PushDone
    <2> QED
      BY <2>1, <2>2 DEF TypeInv, TypeOK
  <1>3. CASE Deliver(p)
    <2>1. TablesOK' /\ failures' \in Nat /\ pushErrors' \in Nat
      BY <1>3, DeliverTables
    <2>2. ControlOK'
      BY <1>3 DEF Deliver, Goto, memory, TypeInv, TypeOK, ControlOK, RenewSteps, PushSteps, JobSteps, EditSteps, Resting, Jobs
    <2>3. MemoryOK'
      BY <1>3, RowsTyped DEF Deliver, memory, TypeInv, TypeOK, TablesOK, MemoryOK, Enabled
    <2>4. StepsOK'
      BY <1>3 DEF Deliver, Goto, memory, TypeInv, TypeOK, ControlOK, MemoryOK, StepsOK, PushSteps
    <2> QED
      BY <2>1, <2>2, <2>3, <2>4 DEF TypeInv, TypeOK
  <1>4. CASE Record(p)
    <2>1. TablesOK' /\ failures' \in Nat /\ pushErrors' \in Nat
      BY <1>4, RecordTables
    <2>2. ControlOK'
      BY <1>4 DEF Record, Goto, memory, TypeInv, TypeOK, ControlOK, RenewSteps, PushSteps, JobSteps, EditSteps, Resting, Jobs
    <2>3. MemoryOK'
      BY <1>4, RowsTyped DEF Record, memory, TypeInv, TypeOK, TablesOK, MemoryOK, Enabled
    <2>4. StepsOK'
      BY <1>4 DEF Record, Goto, memory, TypeInv, TypeOK, ControlOK, MemoryOK, StepsOK, PushSteps
    <2> QED
      BY <2>1, <2>2, <2>3, <2>4 DEF TypeInv, TypeOK
  <1> QED
    BY <1>1, <1>2, <1>3, <1>4 DEF PushStep

LEMMA JobTyped ==
    ASSUME TypeInv, NEW p \in Procs, JobStep(p)
    PROVE  TypeInv'
  <1>1. CASE JobTargets(p)
    <2>1. TablesOK' /\ failures' \in Nat /\ pushErrors' \in Nat
      BY <1>1 DEF JobTargets, world, counts, TypeInv, TypeOK, TablesOK
    <2>2. CASE Stop(p)
      BY <2>1, <2>2, StopTyped DEF TypeInv, TypeOK
    <2>3. CASE ~Stop(p)
      <3>1. ControlOK'
        BY <1>1, <2>3 DEF JobTargets, Goto, memory, TypeInv, TypeOK, ControlOK, RenewSteps, PushSteps, JobSteps, EditSteps, Resting, Jobs
      <3>2. MemoryOK'
        <4> DEFINE read == [t \in Targets |-> IF t \in Enabled THEN targets[t] ELSE NoTarget(t)]
        <4>1. read \in [Targets -> TargetRows] /\ Enabled \in SUBSET Targets
          BY ReadTyped
        <4>2. /\ todo' = [todo EXCEPT ![p] = Enabled] /\ tseen' = [tseen EXCEPT ![p] = read]
              /\ UNCHANGED <<due, cur, seen, subject, tcur, outcome>>
          BY <1>1, <2>3 DEF JobTargets
        <4> HIDE DEF read
        <4>3. todo' \in [Procs -> SUBSET Targets]
          BY <4>1, <4>2 DEF TypeInv, TypeOK, MemoryOK
        <4>4. tseen' \in [Procs -> [Targets -> TargetRows]]
          BY <4>1, <4>2 DEF TypeInv, TypeOK, MemoryOK
        <4> QED
          BY <4>2, <4>3, <4>4 DEF TypeInv, TypeOK, MemoryOK
      <3>3. StepsOK'
        BY <1>1, <2>3 DEF JobTargets, Goto, memory, TypeInv, TypeOK, ControlOK, MemoryOK, StepsOK, PushSteps
      <3> QED
        BY <2>1, <3>1, <3>2, <3>3 DEF TypeInv, TypeOK
    <2> QED
      BY <2>2, <2>3
  <1>2. CASE JobList(p)
    <2>1. TablesOK' /\ failures' \in Nat /\ pushErrors' \in Nat
      BY <1>2 DEF JobList, world, counts, TypeInv, TypeOK, TablesOK
    <2>2. CASE Stop(p)
      BY <2>1, <2>2, StopTyped DEF TypeInv, TypeOK
    <2>3. CASE ~Stop(p)
      <3>1. ControlOK'
        BY <1>2, <2>3 DEF JobList, ChooseMatch, Goto, memory, TypeInv, TypeOK, ControlOK, RenewSteps, PushSteps, JobSteps, EditSteps, Resting, Jobs
      <3>2. MemoryOK'
        BY <1>2, <2>3, RowsTyped DEF JobList, ChooseMatch, memory, TypeInv, TypeOK, TablesOK, MemoryOK, Enabled
      <3>3. StepsOK'
        BY <1>2, <2>3 DEF JobList, ChooseMatch, Goto, memory, TypeInv, TypeOK, ControlOK, MemoryOK, StepsOK, PushSteps
      <3> QED
        BY <2>1, <3>1, <3>2, <3>3 DEF TypeInv, TypeOK
    <2> QED
      BY <2>2, <2>3
  <1> QED
    BY <1>1, <1>2 DEF JobStep

LEMMA EditTyped ==
    ASSUME TypeInv, NEW p \in Procs, EditStep(p)
    PROVE  TypeInv'
  <1>1. CASE UpdateRead(p)
    <2>1. TablesOK' /\ failures' \in Nat /\ pushErrors' \in Nat
      BY <1>1 DEF UpdateRead, world, counts, TypeInv, TypeOK, TablesOK
    <2>2. CASE Stop(p)
      BY <2>1, <2>2, StopTyped DEF TypeInv, TypeOK
    <2>3. CASE ~Stop(p)
      <3>1. ControlOK'
        BY <1>1, <2>3 DEF UpdateRead, Goto, memory, TypeInv, TypeOK, ControlOK, RenewSteps, PushSteps, JobSteps, EditSteps, Resting, Jobs
      <3>2. MemoryOK'
        <4>1. /\ seen' = [seen EXCEPT ![p] = rows[cur[p]]] /\ cur[p] \in Certs
              /\ UNCHANGED <<due, cur, subject, todo, tcur, tseen, outcome>>
          BY <1>1, <2>3 DEF UpdateRead, TypeInv, StepsOK
        <4>2. rows[cur[p]] \in CertRows
          BY <4>1 DEF TypeInv, TypeOK, TablesOK
        <4>3. seen' \in [Procs -> CertRows]
          BY <4>1, <4>2 DEF TypeInv, TypeOK, MemoryOK
        <4> QED
          BY <4>1, <4>3 DEF TypeInv, TypeOK, MemoryOK
      <3>3. StepsOK'
        BY <1>1, <2>3 DEF UpdateRead, Goto, memory, TypeInv, TypeOK, ControlOK, MemoryOK, StepsOK, PushSteps
      <3> QED
        BY <2>1, <3>1, <3>2, <3>3 DEF TypeInv, TypeOK
    <2> QED
      BY <2>2, <2>3
  <1>2. CASE UpdateSave(p)
    <2>1. TablesOK' /\ failures' \in Nat /\ pushErrors' \in Nat
      BY <1>2, UpdateSaveTables
    <2>2. ControlOK' /\ MemoryOK' /\ StepsOK'
      BY <1>2, StopTyped DEF UpdateSave
    <2> QED
      BY <2>1, <2>2 DEF TypeInv, TypeOK
  <1>3. CASE SetStatus(p)
    <2>1. TablesOK' /\ failures' \in Nat /\ pushErrors' \in Nat
      BY <1>3, SetStatusTables
    <2>2. ControlOK' /\ MemoryOK' /\ StepsOK'
      BY <1>3, StopTyped DEF SetStatus
    <2> QED
      BY <2>1, <2>2 DEF TypeInv, TypeOK
  <1>4. CASE TargetRead(p)
    <2>1. TablesOK' /\ failures' \in Nat /\ pushErrors' \in Nat
      BY <1>4 DEF TargetRead, world, counts, TypeInv, TypeOK, TablesOK
    <2>2. CASE Stop(p)
      BY <2>1, <2>2, StopTyped DEF TypeInv, TypeOK
    <2>3. CASE ~Stop(p)
      <3>1. ControlOK'
        BY <1>4, <2>3 DEF TargetRead, Goto, memory, TypeInv, TypeOK, ControlOK, RenewSteps, PushSteps, JobSteps, EditSteps, Resting, Jobs
      <3>2. MemoryOK'
        <4>1. call[p].target \in Targets
          BY <1>4, CallsTyped DEF TargetRead, TypeInv, TypeOK, ControlOK, StepsOK
        <4>2. [Unread EXCEPT ![call[p].target] = targets[call[p].target]] \in [Targets -> TargetRows]
          BY <4>1, ReadTyped DEF TypeInv, TypeOK
        <4>3. tseen' \in [Procs -> [Targets -> TargetRows]]
          BY <1>4, <2>3, <4>2 DEF TargetRead, TypeInv, TypeOK, MemoryOK
        <4> QED
          BY <1>4, <2>3, <4>3 DEF TargetRead, TypeInv, TypeOK, MemoryOK
      <3>3. StepsOK'
        <4>1. pc[p] = "targetRead" /\ pc'[p] = "targetSave"
          BY <1>4, <2>3 DEF TargetRead, Goto, TypeInv, TypeOK, ControlOK
        <4>2. \A q \in Procs : call'[q] = call[q] /\ cur'[q] = cur[q]
                                /\ subject'[q] = subject[q] /\ tcur'[q] = tcur[q]
          BY <1>4, <2>3 DEF TargetRead
        <4>3. \A q \in Procs \ {p} : pc'[q] = pc[q]
          BY <1>4, <2>3 DEF TargetRead, Goto, TypeInv, TypeOK, ControlOK
        <4>4. call[p].kind = "retarget" /\ pc'[p] \notin PushSteps
          BY <4>1 DEF TypeInv, StepsOK, PushSteps
        <4>5. "retarget" \in TargetKinds
          BY DEF TargetKinds
        <4> QED
          BY <4>1, <4>2, <4>3, <4>4, <4>5, StepsElsewhere DEF TypeInv
      <3> QED
        BY <2>1, <3>1, <3>2, <3>3 DEF TypeInv, TypeOK
    <2> QED
      BY <2>2, <2>3
  <1>5. CASE TargetSave(p)
    <2>1. TablesOK' /\ failures' \in Nat /\ pushErrors' \in Nat
      BY <1>5, TargetSaveTables
    <2>2. ControlOK' /\ MemoryOK' /\ StepsOK'
      BY <1>5, StopTyped DEF TargetSave
    <2> QED
      BY <2>1, <2>2 DEF TypeInv, TypeOK
  <1>6. CASE TargetInsert(p)
    <2>1. TablesOK' /\ failures' \in Nat /\ pushErrors' \in Nat
      BY <1>6, TargetInsertTables
    <2>2. ControlOK' /\ MemoryOK' /\ StepsOK'
      BY <1>6, StopTyped DEF TargetInsert
    <2> QED
      BY <2>1, <2>2 DEF TypeInv, TypeOK
  <1>7. CASE TargetDelete(p)
    <2>1. TablesOK' /\ failures' \in Nat /\ pushErrors' \in Nat
      BY <1>7, TargetDeleteTables
    <2>2. ControlOK' /\ MemoryOK' /\ StepsOK'
      BY <1>7, StopTyped DEF TargetDelete
    <2> QED
      BY <2>1, <2>2 DEF TypeInv, TypeOK
  <1>8. CASE TestRead(p)
    <2>1. TablesOK' /\ failures' \in Nat /\ pushErrors' \in Nat
      BY <1>8 DEF TestRead, world, counts, TypeInv, TypeOK, TablesOK
    <2>2. CASE Stop(p)
      BY <2>1, <2>2, StopTyped DEF TypeInv, TypeOK
    <2>3. CASE ~Stop(p)
      <3>1. ControlOK'
        BY <1>8, <2>3 DEF TestRead, Goto, memory, TypeInv, TypeOK, ControlOK, RenewSteps, PushSteps, JobSteps, EditSteps, Resting, Jobs
      <3>2. MemoryOK'
        <4>1. call[p].target \in Targets
          BY <1>8, CallsTyped DEF TestRead, TypeInv, TypeOK, ControlOK, StepsOK
        <4>2. /\ todo' = [todo EXCEPT ![p] = {call[p].target}]
              /\ tseen' = [tseen EXCEPT ![p] = [Unread EXCEPT ![call[p].target] = targets[call[p].target]]]
              /\ UNCHANGED <<due, cur, seen, subject, tcur, outcome>>
          BY <1>8, <2>3 DEF TestRead
        <4>3. todo' \in [Procs -> SUBSET Targets]
          BY <4>1, <4>2 DEF TypeInv, TypeOK, MemoryOK
        <4> QED
          BY <4>1, <4>2, <4>3, ReadTyped DEF TypeInv, TypeOK, MemoryOK
      <3>3. StepsOK'
        BY <1>8, <2>3 DEF TestRead, Goto, memory, TypeInv, TypeOK, ControlOK, MemoryOK, StepsOK, PushSteps
      <3> QED
        BY <2>1, <3>1, <3>2, <3>3 DEF TypeInv, TypeOK
    <2> QED
      BY <2>2, <2>3
  <1>9. CASE TestList(p)
    <2>1. TablesOK' /\ failures' \in Nat /\ pushErrors' \in Nat
      BY <1>9 DEF TestList, world, counts, TypeInv, TypeOK, TablesOK
    <2>2. CASE Stop(p)
      BY <2>1, <2>2, StopTyped DEF TypeInv, TypeOK
    <2>3. CASE ~Stop(p)
      <3>1. ControlOK'
        BY <1>9, <2>3 DEF TestList, ChooseMatch, Goto, memory, TypeInv, TypeOK, ControlOK, RenewSteps, PushSteps, JobSteps, EditSteps, Resting, Jobs
      <3>2. MemoryOK'
        BY <1>9, <2>3, RowsTyped DEF TestList, ChooseMatch, memory, TypeInv, TypeOK, TablesOK, MemoryOK, Enabled
      <3>3. StepsOK'
        BY <1>9, <2>3 DEF TestList, ChooseMatch, Goto, memory, TypeInv, TypeOK, ControlOK, MemoryOK, StepsOK, PushSteps
      <3> QED
        BY <2>1, <3>1, <3>2, <3>3 DEF TypeInv, TypeOK
    <2> QED
      BY <2>2, <2>3
  <1> QED
    BY <1>1, <1>2, <1>3, <1>4, <1>5, <1>6, <1>7, <1>8, <1>9 DEF EditStep

\* The other steps: a call begins, a pass begins, a statement fails, a day ends.
LEMMA BeginTyped ==
    ASSUME TypeInv, NEW r \in Requests, NEW k \in Calls, Begin(r, k)
    PROVE  TypeInv'
  <1> r \in Procs
    BY DEF Procs
  <1>1. k.kind \in AllKinds /\ k.certs \in SUBSET Certs
    BY CallKinds, CallsTyped
  <1>2. FirstStep[k.kind] \in RenewSteps \cup EditSteps
    BY <1>1 DEF FirstStep, AllKinds, CertKinds, TargetKinds, RenewSteps, EditSteps
  <1>3. TablesOK' /\ failures' \in Nat /\ pushErrors' \in Nat
    BY DEF Begin, world, counts, TypeInv, TypeOK, TablesOK
  <1>4. ControlOK'
    BY <1>2 DEF Begin, Goto, TypeInv, TypeOK, ControlOK
  <1>5. MemoryOK'
    <2>1. due' \in [Procs -> SUBSET Certs]
      BY <1>1 DEF Begin, TypeInv, TypeOK, MemoryOK
    <2>2. cur' \in [Procs -> Certs \cup {None}]
      BY <1>1 DEF Begin, TypeInv, TypeOK, MemoryOK
    <2>3. subject' \in [Procs -> Certs \cup {None}]
      BY <1>1 DEF Begin, TypeInv, TypeOK, MemoryOK
    <2> QED
      BY <2>1, <2>2, <2>3 DEF Begin, TypeInv, TypeOK, MemoryOK
  <1>6. StepsOK'
    <2>1. /\ pc'[r] = FirstStep[k.kind] /\ call'[r] = k
          /\ k.kind \in CertKinds => cur'[r] \in Certs
          /\ k.kind = "redeploy" => subject'[r] \in Certs
      BY <1>1 DEF Begin, Goto, TypeInv, TypeOK, ControlOK, MemoryOK
    <2>2. /\ FirstStep[k.kind] \in {"insert", "switchOff", "updateRead", "updateSave", "setStatus"}
               => k.kind \in CertKinds
          /\ FirstStep[k.kind] \in PushSteps \cup {"switchOff", "deployGet", "deployTargets"}
               => k.kind = "redeploy"
          /\ FirstStep[k.kind] \notin {"deliver", "record"}
          /\ FirstStep[k.kind] \in {"targetRead", "targetSave", "targetInsert", "targetDelete", "testRead"}
               => k.kind \in TargetKinds
          /\ FirstStep[k.kind] \in {"targetRead", "targetSave"} => k.kind = "retarget"
      BY <1>1 DEF FirstStep, AllKinds, CertKinds, TargetKinds, PushSteps
    <2>3. \A q \in Procs \ {r} : /\ pc'[q] = pc[q] /\ call'[q] = call[q] /\ cur'[q] = cur[q]
                                 /\ subject'[q] = subject[q] /\ tcur'[q] = tcur[q]
      BY DEF Begin, Goto, TypeInv, TypeOK, ControlOK, MemoryOK
    <2> QED
      BY <2>1, <2>2, <2>3 DEF TypeInv, StepsOK
  <1> QED
    BY <1>3, <1>4, <1>5, <1>6 DEF TypeInv, TypeOK

LEMMA PassStartTyped ==
    ASSUME TypeInv, NEW s \in Schedulers, PassStart(s)
    PROVE  TypeInv'
  <1> s \in Procs
    BY DEF Procs
  <1>1. TablesOK' /\ failures' \in Nat /\ pushErrors' \in Nat
    BY DEF PassStart, world, counts, TypeInv, TypeOK, TablesOK
  <1>2. ControlOK'
    BY DEF PassStart, Goto, TypeInv, TypeOK, ControlOK, RenewSteps, Jobs
  <1>3. MemoryOK'
    BY DEF PassStart, TypeInv, TypeOK, MemoryOK
  <1>4. StepsOK'
    BY DEF PassStart, Goto, TypeInv, TypeOK, ControlOK, StepsOK, PushSteps
  <1> QED
    BY <1>1, <1>2, <1>3, <1>4 DEF TypeInv, TypeOK

LEMMA FailTyped ==
    ASSUME TypeInv, NEW p \in Procs, Fail(p)
    PROVE  TypeInv'
  <1>1. TablesOK' /\ failures' \in Nat /\ pushErrors' \in Nat
    BY DEF Fail, world, TypeInv, TypeOK, TablesOK
  <1>2. CASE Stop(p)
    BY <1>1, <1>2, StopTyped DEF TypeInv, TypeOK
  <1>3. CASE pc[p] \in {"deployGet", "deployTargets"} /\ Deployed(p)
    BY <1>1, <1>3, DeployedTyped DEF TypeInv, TypeOK
  <1>4. CASE pc[p] \in {"insert", "renewNext"} /\ StatementFails(p)
    <2>1. ControlOK'
      BY <1>4 DEF StatementFails, Goto, TypeInv, TypeOK, ControlOK, RenewSteps
    <2>2. due' \in [Procs -> SUBSET Certs]
      BY <1>4 DEF StatementFails, TypeInv, TypeOK, MemoryOK
    <2>3. MemoryOK'
      <3>1. /\ cur' = [cur EXCEPT ![p] = None] /\ seen' = [seen EXCEPT ![p] = NoRow]
            /\ UNCHANGED <<subject, todo, tcur, tseen, outcome>>
        BY <1>4 DEF StatementFails
      <3> QED
        BY <2>2, <3>1, RowsTyped DEF TypeInv, TypeOK, MemoryOK
    <2>4. StepsOK'
      BY <1>4 DEF StatementFails, Goto, TypeInv, TypeOK, ControlOK, MemoryOK, StepsOK, PushSteps
    <2> QED
      BY <1>1, <2>1, <2>3, <2>4 DEF TypeInv, TypeOK
  <1>5. CASE pc[p] \in {"switchOff", "record"} /\ StatementFails(p)
    <2>1. ControlOK'
      BY <1>5 DEF StatementFails, Goto, TypeInv, TypeOK, ControlOK, RenewSteps, PushSteps
    <2>2. MemoryOK'
      BY <1>5 DEF StatementFails, TypeInv, TypeOK, MemoryOK
    <2>3. StepsOK'
      BY <1>5 DEF StatementFails, Goto, TypeInv, TypeOK, ControlOK, MemoryOK, StepsOK, PushSteps
    <2> QED
      BY <1>1, <2>1, <2>2, <2>3 DEF TypeInv, TypeOK
  <1> QED
    BY <1>2, <1>3, <1>4, <1>5 DEF Fail, StatementFails

LEMMA TickTyped == TypeInv /\ Tick => TypeInv'
  BY DEF Tick, memory, counts, TypeInv, TypeOK, TablesOK, ControlOK, MemoryOK, StepsOK

LEMMA StutterTyped == TypeInv /\ UNCHANGED vars => TypeInv'
  BY DEF vars, world, memory, counts, TypeInv, TypeOK, TablesOK, ControlOK, MemoryOK, StepsOK

LEMMA NextTyped == TypeInv /\ [Next]_vars => TypeInv'
  <1> SUFFICES ASSUME TypeInv, [Next]_vars PROVE TypeInv'
    OBVIOUS
  <1>1. ASSUME NEW r \in Requests, (\E k \in Calls : Begin(r, k)) \/ EditStep(r) PROVE TypeInv'
    BY <1>1, BeginTyped, EditTyped DEF Procs
  <1>2. ASSUME NEW s \in Schedulers, PassStart(s) \/ JobStep(s) PROVE TypeInv'
    BY <1>2, PassStartTyped, JobTyped DEF Procs
  <1>3. ASSUME NEW p \in Procs, RenewStep(p) \/ PushStep(p) \/ Fail(p) PROVE TypeInv'
    BY <1>3, RenewTyped, PushTyped, FailTyped
  <1> QED
    BY <1>1, <1>2, <1>3, TickTyped, StutterTyped DEF Next

\* Every reachable state is well typed, however many calls, schedulers,
\* targets and certificates there are.
THEOREM RenewalTypeCorrect == Spec => []TypeOK
  <1>1. Init => TypeInv
    BY InitTyped
  <1>2. TypeInv /\ [Next]_vars => TypeInv'
    BY NextTyped
  <1>3. TypeInv => TypeOK
    BY DEF TypeInv
  <1> QED
    BY <1>1, <1>2, <1>3, PTL DEF Spec

-----------------------------------------------------------------------------

(* The frame of every argument below: what a step leaves alone.            *)

\* Another process is where it was, with what it had read.
Apart(p, q) ==
    /\ pc'[q] = pc[q] /\ call'[q] = call[q] /\ cur'[q] = cur[q] /\ seen'[q] = seen[q]
    /\ subject'[q] = subject[q] /\ tcur'[q] = tcur[q] /\ tseen'[q] = tseen[q]
    /\ outcome'[q] = outcome[q]

\* A request that runs keeps its call, and never waits for one again.
Keeps(p) ==
    /\ \A q \in Procs \ {p} : Apart(p, q)
    /\ p \in Requests => call'[p] = call[p] /\ pc'[p] # "idle"

LEMMA StopKeeps ==
    ASSUME TypeInv, NEW p \in Procs, Stop(p)
    PROVE  /\ Keeps(p) /\ pc'[p] \in Resting
           /\ tseen'[p] = Unread /\ outcome'[p] = FALSE
  <1>1. \A q \in Procs \ {p} : Apart(p, q)
    BY DEF Stop, Goto, Apart, TypeInv, TypeOK, ControlOK, MemoryOK
  <1>2. p \in Requests => call'[p] = call[p] /\ pc'[p] # "idle"
    BY RenewalProcsAssumption DEF Stop, Goto, TypeInv, TypeOK, ControlOK
  <1>3. pc'[p] \in Resting /\ tseen'[p] = Unread /\ outcome'[p] = FALSE
    BY DEF Stop, Goto, Resting, TypeInv, TypeOK, ControlOK, MemoryOK
  <1> QED
    BY <1>1, <1>2, <1>3 DEF Keeps

LEMMA DeployedKeeps ==
    ASSUME TypeInv, NEW p \in Procs, Deployed(p)
    PROVE  /\ Keeps(p) /\ pc'[p] \in Resting \cup {"renewNext"}
           /\ tseen'[p] = Unread /\ outcome'[p] \in {outcome[p], FALSE}
  <1>1. CASE Stop(p)
    BY <1>1, StopKeeps
  <1>2. CASE ~Stop(p)
    BY <1>2 DEF Deployed, Goto, Keeps, Apart, TypeInv, TypeOK, ControlOK, MemoryOK
  <1> QED
    BY <1>1, <1>2

LEMMA StepKeeps ==
    ASSUME TypeInv, NEW p \in Procs, RenewStep(p) \/ PushStep(p) \/ JobStep(p) \/ EditStep(p) \/ Fail(p)
    PROVE  Keeps(p)
  <1> USE DEF Goto, memory, TypeInv, TypeOK, ControlOK, MemoryOK
  <1>1. CASE Stop(p) \/ Deployed(p)
    BY <1>1, StopKeeps, DeployedKeeps
  <1> SUFFICES ASSUME ~Stop(p), ~Deployed(p) PROVE Keeps(p)
    BY <1>1
  <1>2. CASE RenewRead(p)
    BY <1>2 DEF RenewRead, Keeps, Apart
  <1>3. CASE RenewDone(p)
    BY <1>3, RenewalProcsAssumption DEF RenewDone, Keeps, Apart
  <1>4. CASE RenewInsert(p)
    <2>1. \A q \in Procs \ {p} : cur'[q] = cur[q] /\ pc'[q] = pc[q] /\ pc'[p] # "idle"
      BY <1>4 DEF RenewInsert
    <2>2. \A q \in Procs \ {p} : seen'[q] = seen[q] /\ subject'[q] = subject[q]
      BY <1>4 DEF RenewInsert
    <2> QED
      BY <1>4, <2>1, <2>2 DEF RenewInsert, Keeps, Apart
  <1>5. CASE SwitchOff(p) \/ DeployGet(p) \/ DeployTargets(p)
    BY <1>5 DEF SwitchOff, DeployGet, DeployTargets, Keeps, Apart
  <1>6. CASE PushStart(p)
    BY <1>6 DEF PushStart, Keeps, Apart
  <1>7. CASE PushDone(p) \/ UpdateSave(p) \/ SetStatus(p) \/ TargetSave(p) \/ TargetInsert(p) \/ TargetDelete(p)
    BY <1>7 DEF PushDone, UpdateSave, SetStatus, TargetSave, TargetInsert, TargetDelete
  <1>8. CASE Deliver(p) \/ Record(p)
    BY <1>8 DEF Deliver, Record, Keeps, Apart
  <1>9. CASE JobTargets(p) \/ JobList(p) \/ TestList(p)
    BY <1>9 DEF JobTargets, JobList, TestList, ChooseMatch, Keeps, Apart
  <1>10. CASE UpdateRead(p) \/ TargetRead(p) \/ TestRead(p)
    BY <1>10 DEF UpdateRead, TargetRead, TestRead, Keeps, Apart
  <1>11. CASE Fail(p)
    BY <1>11 DEF Fail, StatementFails, Keeps, Apart
  <1> QED
    BY <1>2, <1>3, <1>4, <1>5, <1>6, <1>7, <1>8, <1>9, <1>10, <1>11
       DEF RenewStep, PushStep, JobStep, EditStep

-----------------------------------------------------------------------------
(* What a target row says was delivered                                    *)

\* A target's row, or a copy of it, says what was delivered where it points, or
\* has the serial that it kept when it was moved there.
Truthful(t, row, put, moved) ==
    row.last # None => <<row.place, row.last>> \in put \/ <<t, row.place, row.last>> \in moved

\* Not only the rows have to be right but also the copies of them that a
\* process has read and will write back, and the outcome it will record.
DeliveredInv ==
    /\ \A t \in Targets : Truthful(t, targets[t], delivered, carried)
    /\ \A p \in Procs, t \in Targets : Truthful(t, tseen[p][t], delivered, carried)
    /\ \A p \in Procs :
         outcome[p] => pc[p] = "record" /\ <<tseen[p][tcur[p]].place, subject[p]>> \in delivered

LEMMA BlankTruthful ==
    ASSUME NEW t \in Targets, NEW put, NEW moved
    PROVE  /\ Truthful(t, NewTarget(t), put, moved) /\ Truthful(t, NoTarget(t), put, moved)
           /\ Truthful(t, Unread[t], put, moved)
  BY DEF Truthful, NewTarget, NoTarget, Unread

LEMMA DeliveredInit == Init => DeliveredInv
  BY BlankTruthful DEF Init, DeliveredInv

LEMMA StaysTruthful ==
    ASSUME delivered \subseteq delivered', carried \subseteq carried', NEW t, NEW row,
           Truthful(t, row, delivered, carried)
    PROVE  Truthful(t, row, delivered', carried')
  BY DEF Truthful

\* A step keeps the invariant when what its process has read afterwards was
\* read from the table or read before, and it does not touch the rows.
LEMMA DeliveredFrame ==
    ASSUME TypeInv, DeliveredInv, NEW p \in Procs, Keeps(p),
           delivered \subseteq delivered', carried \subseteq carried',
           \A t \in Targets : Truthful(t, targets'[t], delivered', carried'),
           \A t \in Targets : Truthful(t, tseen'[p][t], delivered', carried'),
           outcome'[p] => pc'[p] = "record" /\ <<tseen'[p][tcur'[p]].place, subject'[p]>> \in delivered'
    PROVE  DeliveredInv'
  <1>1. ASSUME NEW q \in Procs, NEW t \in Targets
        PROVE  Truthful(t, tseen'[q][t], delivered', carried')
    <2>1. CASE q = p
      BY <2>1
    <2>2. CASE q # p
      <3>1. tseen'[q] = tseen[q]
        BY <2>2 DEF Keeps, Apart
      <3> QED
        BY <3>1, StaysTruthful DEF DeliveredInv
    <2> QED
      BY <2>1, <2>2
  <1>2. ASSUME NEW q \in Procs, outcome'[q]
        PROVE  pc'[q] = "record" /\ <<tseen'[q][tcur'[q]].place, subject'[q]>> \in delivered'
    <2>1. CASE q = p
      BY <1>2, <2>1
    <2>2. CASE q # p
      <3>1. /\ outcome'[q] = outcome[q] /\ pc'[q] = pc[q] /\ subject'[q] = subject[q]
            /\ tseen'[q] = tseen[q] /\ tcur'[q] = tcur[q]
        BY <2>2 DEF Keeps, Apart
      <3> QED
        BY <1>2, <3>1 DEF DeliveredInv
    <2> QED
      BY <2>1, <2>2
  <1> QED
    BY <1>1, <1>2 DEF DeliveredInv

\* The steps that leave the table and the places alone.
LEMMA DeliveredQuiet ==
    ASSUME TypeInv, DeliveredInv, NEW p \in Procs, Keeps(p), UNCHANGED <<targets, delivered, carried>>,
           \/ UNCHANGED tseen
           \/ tseen'[p] = Unread
           \/ \A t \in Targets : tseen'[p][t] = targets[t] \/ tseen'[p][t] = NoTarget(t),
           \/ outcome'[p] = FALSE
           \/ outcome'[p] = outcome[p] /\ pc[p] # "record"
    PROVE  DeliveredInv'
  <1>1. outcome'[p] = FALSE
    BY DEF DeliveredInv, TypeInv, TypeOK, MemoryOK
  <1>2. \A t \in Targets : Truthful(t, targets'[t], delivered', carried')
    BY DEF DeliveredInv
  <1>3. ASSUME NEW t \in Targets PROVE Truthful(t, tseen'[p][t], delivered', carried')
    <2>1. CASE UNCHANGED tseen
      BY <2>1 DEF DeliveredInv
    <2>2. CASE tseen'[p] = Unread
      BY <2>2, BlankTruthful
    <2>3. CASE \A u \in Targets : tseen'[p][u] = targets[u] \/ tseen'[p][u] = NoTarget(u)
      BY <2>3, BlankTruthful DEF DeliveredInv
    <2> QED
      BY <2>1, <2>2, <2>3
  <1> QED
    BY <1>1, <1>2, <1>3, DeliveredFrame

LEMMA DeliveredStep ==
    ASSUME TypeInv, DeliveredInv, NEW p \in Procs,
           RenewStep(p) \/ PushStep(p) \/ JobStep(p) \/ EditStep(p) \/ Fail(p)
    PROVE  DeliveredInv'
  <1> Keeps(p)
    BY StepKeeps
  <1> USE DEF Goto, world, memory, TypeInv, TypeOK, ControlOK, MemoryOK
  <1>1. CASE (Stop(p) \/ Deployed(p)) /\ pc[p] # "record" /\ UNCHANGED <<targets, delivered, carried>>
    BY <1>1, StopKeeps, DeployedKeeps, DeliveredQuiet
  <1>2. CASE Stop(p) /\ UNCHANGED <<targets, delivered, carried>>
    BY <1>2, StopKeeps, DeliveredQuiet
  <1>3. CASE RenewRead(p) \/ RenewDone(p) \/ RenewInsert(p) \/ SwitchOff(p) \/ DeployGet(p) \/ PushStart(p) \/ PushDone(p)
    <2>1. UNCHANGED <<targets, delivered, carried>> /\ pc[p] # "record"
      BY <1>3 DEF RenewRead, RenewDone, RenewInsert, SwitchOff, DeployGet, PushStart, PushDone
    <2>2. Stop(p) \/ Deployed(p) \/ UNCHANGED <<tseen, outcome>>
      BY <1>3 DEF RenewRead, RenewDone, RenewInsert, SwitchOff, DeployGet, PushStart, PushDone
    <2> QED
      BY <2>1, <2>2, <1>1, DeliveredQuiet
  <1>4. CASE DeployTargets(p) \/ JobTargets(p)
    <2>1. UNCHANGED <<targets, delivered, carried>> /\ pc[p] # "record"
      BY <1>4 DEF DeployTargets, JobTargets
    <2>2. \/ Stop(p)
          \/ /\ UNCHANGED outcome
             /\ tseen' = [tseen EXCEPT ![p] = [t \in Targets |-> IF t \in Enabled THEN targets[t] ELSE NoTarget(t)]]
      BY <1>4 DEF DeployTargets, JobTargets
    <2>3. \/ Stop(p)
          \/ outcome' = outcome /\ \A t \in Targets : tseen'[p][t] = targets[t] \/ tseen'[p][t] = NoTarget(t)
      BY <2>2
    <2> QED
      BY <2>1, <2>3, <1>1, DeliveredQuiet
  <1>5. CASE TargetRead(p) \/ TestRead(p)
    <2>1. UNCHANGED <<targets, delivered, carried>> /\ pc[p] # "record" /\ call[p].target \in Targets
      BY <1>5, CallsTyped DEF TargetRead, TestRead, StepsOK
    <2>2. \/ Stop(p)
          \/ /\ UNCHANGED outcome
             /\ tseen' = [tseen EXCEPT ![p] = [Unread EXCEPT ![call[p].target] = targets[call[p].target]]]
      BY <1>5 DEF TargetRead, TestRead
    <2>3. \/ Stop(p)
          \/ outcome' = outcome /\ \A t \in Targets : tseen'[p][t] = targets[t] \/ tseen'[p][t] = NoTarget(t)
      <3>1. CASE Stop(p)
        BY <3>1
      <3>2. CASE ~Stop(p)
        <4>1. tseen'[p] = [Unread EXCEPT ![call[p].target] = targets[call[p].target]]
          BY <2>2, <3>2
        <4>2. \A t \in Targets : tseen'[p][t] = targets[t] \/ tseen'[p][t] = Unread[t]
          BY <4>1 DEF Unread
        <4>3. \A t \in Targets : Unread[t] = NoTarget(t)
          BY DEF Unread
        <4> QED
          BY <2>2, <3>2, <4>2, <4>3
      <3> QED
        BY <3>1, <3>2
    <2> QED
      BY <2>1, <2>3, <1>1, DeliveredQuiet
  <1>6. CASE JobList(p) \/ TestList(p) \/ UpdateRead(p)
    <2>1. UNCHANGED <<targets, delivered, carried>> /\ pc[p] # "record"
      BY <1>6 DEF JobList, TestList, UpdateRead
    <2>2. Stop(p) \/ UNCHANGED <<tseen, outcome>>
      BY <1>6 DEF JobList, TestList, UpdateRead, ChooseMatch
    <2> QED
      BY <2>1, <2>2, <1>1, DeliveredQuiet
  <1>7. CASE UpdateSave(p) \/ SetStatus(p)
    BY <1>7, <1>2 DEF UpdateSave, SetStatus
  <1>8. CASE Deliver(p)
    <2>1. /\ pc'[p] = "record" /\ subject' = subject /\ tcur' = tcur
          /\ UNCHANGED <<tseen, targets, carried>>
      BY <1>8 DEF Deliver
    <2>2. delivered \subseteq delivered'
      BY <1>8 DEF Deliver
    <2>3. outcome'[p] => <<tseen[p][tcur[p]].place, subject[p]>> \in delivered'
      BY <1>8 DEF Deliver
    <2> QED
      BY <2>1, <2>2, <2>3, StaysTruthful, DeliveredFrame DEF DeliveredInv
  <1>9. CASE Record(p)
    <2>1. tcur[p] \in Targets /\ outcome'[p] = FALSE /\ UNCHANGED <<delivered, carried, tseen>>
      BY <1>9 DEF Record, StepsOK
    <2>2. Truthful(tcur[p], Recorded(p), delivered, carried)
      <3>1. tseen[p][tcur[p]] \in TargetRows
        BY <2>1
      <3>2. CASE outcome[p]
        <4>1. Recorded(p).place = tseen[p][tcur[p]].place /\ Recorded(p).last = subject[p]
          BY <3>1, <3>2 DEF Recorded, TargetRows
        <4> QED
          BY <3>2, <4>1 DEF DeliveredInv, Truthful
      <3>3. CASE ~outcome[p]
        <4>1. Recorded(p).place = tseen[p][tcur[p]].place /\ Recorded(p).last = tseen[p][tcur[p]].last
          BY <3>1, <3>3 DEF Recorded, TargetRows
        <4> QED
          BY <2>1, <4>1 DEF DeliveredInv, Truthful
      <3> QED
        BY <3>2, <3>3
    <2>3. \A t \in Targets : targets'[t] = IF t = tcur[p] THEN Recorded(p) ELSE targets[t]
      BY <1>9 DEF Record, TablesOK
    <2>4. \A t \in Targets : Truthful(t, targets'[t], delivered', carried')
      BY <2>1, <2>2, <2>3 DEF DeliveredInv
    <2>5. \A t \in Targets : Truthful(t, tseen'[p][t], delivered', carried')
      BY <2>1 DEF DeliveredInv
    <2> QED
      BY <2>1, <2>4, <2>5, DeliveredFrame
  <1>10. CASE TargetSave(p) \/ TargetInsert(p) \/ TargetDelete(p)
    <2> DEFINE t == call[p].target
    <2>1. Stop(p) /\ UNCHANGED delivered /\ t \in Targets /\ carried \subseteq carried'
      BY <1>10, CallsTyped DEF TargetSave, TargetInsert, TargetDelete, StepsOK
    <2>2. \A u \in Targets : u # t => targets'[u] = targets[u]
      <3>1. CASE TargetSave(p)
        <4> DEFINE row == [tseen[p][t] EXCEPT !.enabled = call[p].flag, !.place = call[p].place]
        <4>1. targets' = [targets EXCEPT ![t] = row]
          BY <3>1 DEF TargetSave
        <4> HIDE DEF row
        <4> QED
          BY <4>1 DEF TablesOK
      <3>2. CASE TargetInsert(p)
        BY <3>2 DEF TargetInsert, TablesOK
      <3>3. CASE TargetDelete(p)
        <4>1. targets' = [targets EXCEPT ![t] = [targets[t] EXCEPT !.kept = FALSE]]
          BY <3>3 DEF TargetDelete
        <4> QED
          BY <4>1 DEF TablesOK
      <3> QED
        BY <1>10, <3>1, <3>2, <3>3
    <2>3. Truthful(t, targets'[t], delivered', carried')
      <3>1. CASE TargetSave(p)
        <4> DEFINE read == tseen[p][t]
                   row  == [read EXCEPT !.enabled = call[p].flag, !.place = call[p].place]
        <4>1. read \in TargetRows /\ Truthful(t, read, delivered, carried)
          BY <2>1 DEF DeliveredInv
        <4>2. row.last = read.last /\ row.place = call[p].place
          BY <4>1 DEF TargetRows
        <4>3. targets'[t] = row
          BY <3>1, <2>1 DEF TargetSave, TablesOK
        <4>4. CASE read.place = call[p].place
          BY <2>1, <4>1, <4>2, <4>3, <4>4 DEF Truthful
        <4>5. CASE read.place # call[p].place /\ read.last # None
          <5>1. <<t, call[p].place, read.last>> \in carried'
            BY <3>1, <4>5 DEF TargetSave
          <5> QED
            BY <4>2, <4>3, <5>1 DEF Truthful
        <4>6. CASE read.last = None
          BY <4>2, <4>3, <4>6 DEF Truthful
        <4> QED
          BY <4>4, <4>5, <4>6
      <3>2. CASE TargetInsert(p)
        BY <3>2, <2>1, BlankTruthful DEF TargetInsert, TablesOK
      <3>3. CASE TargetDelete(p)
        <4>1. targets[t] \in TargetRows /\ Truthful(t, targets[t], delivered, carried)
          BY <2>1 DEF TablesOK, DeliveredInv
        <4>2. targets'[t] = [targets[t] EXCEPT !.kept = FALSE]
          BY <2>1, <3>3 DEF TargetDelete, TablesOK
        <4>3. targets'[t].last = targets[t].last /\ targets'[t].place = targets[t].place
          BY <4>1, <4>2 DEF TargetRows
        <4> QED
          BY <2>1, <4>1, <4>3 DEF Truthful
      <3> QED
        BY <1>10, <3>1, <3>2, <3>3
    <2>4. \A u \in Targets : Truthful(u, targets'[u], delivered', carried')
      BY <2>1, <2>2, <2>3, StaysTruthful DEF DeliveredInv
    <2>5. tseen'[p] = Unread /\ outcome'[p] = FALSE
      BY <2>1, StopKeeps
    <2>6. \A u \in Targets : Truthful(u, tseen'[p][u], delivered', carried')
      BY <2>5, BlankTruthful
    <2> QED
      BY <2>1, <2>4, <2>5, <2>6, DeliveredFrame
  <1>11. CASE Fail(p)
    <2>1. UNCHANGED <<targets, delivered, carried>>
      BY <1>11 DEF Fail
    <2>2. CASE Stop(p)
      BY <2>1, <2>2, <1>2
    <2>3. CASE pc[p] \in {"deployGet", "deployTargets"} /\ Deployed(p)
      BY <2>1, <2>3, <1>1
    <2>4. CASE pc[p] \in {"insert", "renewNext", "switchOff", "record"} /\ StatementFails(p)
      <3>1. UNCHANGED tseen /\ (outcome'[p] = FALSE \/ (UNCHANGED outcome /\ pc[p] # "record"))
        BY <2>4 DEF StatementFails
      <3> QED
        BY <2>1, <3>1, DeliveredQuiet
    <2> QED
      BY <1>11, <2>2, <2>3, <2>4 DEF Fail, StatementFails
  <1> QED
    BY <1>3, <1>4, <1>5, <1>6, <1>7, <1>8, <1>9, <1>10, <1>11
       DEF RenewStep, PushStep, JobStep, EditStep

LEMMA DeliveredNext == TypeInv /\ DeliveredInv /\ [Next]_vars => DeliveredInv'
  <1> SUFFICES ASSUME TypeInv, DeliveredInv, [Next]_vars PROVE DeliveredInv'
    OBVIOUS
  <1>1. ASSUME NEW p \in Procs, RenewStep(p) \/ PushStep(p) \/ JobStep(p) \/ EditStep(p) \/ Fail(p)
        PROVE  DeliveredInv'
    BY <1>1, DeliveredStep
  <1>2. ASSUME NEW r \in Requests, NEW k \in Calls, Begin(r, k) PROVE DeliveredInv'
    <2>1. UNCHANGED <<targets, delivered, carried, tcur, tseen, outcome>> /\ pc[r] = "idle"
      BY <1>2 DEF Begin, world
    <2>2. \A q \in Procs : pc[q] = "record" => pc'[q] = pc[q] /\ subject'[q] = subject[q]
      BY <1>2, <2>1 DEF Begin, Goto, TypeInv, TypeOK, ControlOK, MemoryOK
    <2> QED
      BY <2>1, <2>2 DEF DeliveredInv
  <1>3. ASSUME NEW s \in Schedulers, PassStart(s) PROVE DeliveredInv'
    <2>1. UNCHANGED <<targets, delivered, carried, tcur, tseen, outcome, subject>> /\ pc[s] = "idle"
      BY <1>3 DEF PassStart, world
    <2>2. \A q \in Procs : pc[q] = "record" => pc'[q] = pc[q]
      BY <1>3, <2>1 DEF PassStart, Goto, TypeInv, TypeOK, ControlOK
    <2> QED
      BY <2>1, <2>2 DEF DeliveredInv
  <1>4. CASE Tick \/ UNCHANGED vars
    BY <1>4 DEF Tick, vars, world, memory, DeliveredInv
  <1> QED
    BY <1>1, <1>2, <1>3, <1>4 DEF Next, Procs

\* Whatever races between pushes, edits of a target and failures, the serial on
\* a target's row is one that was put where this target points, or was kept by
\* the edit that made it point there: for any number of targets, places and calls.
THEOREM RecordedIsDelivered == Spec => []RecordedWasDelivered
  <1>1. Init => TypeInv /\ DeliveredInv
    BY InitTyped, DeliveredInit
  <1>2. TypeInv /\ DeliveredInv /\ [Next]_vars => (TypeInv /\ DeliveredInv)'
    BY NextTyped, DeliveredNext
  <1>3. DeliveredInv => RecordedWasDelivered
    BY DEF DeliveredInv, RecordedWasDelivered, Truthful, Carried
  <1> QED
    BY <1>1, <1>2, <1>3, PTL DEF Spec

-----------------------------------------------------------------------------
(* Some certificate always renews itself                                   *)

\* It is live, renews itself, and nobody is about to switch that off.
Keeper(c) == Live(c) /\ rows[c].auto /\ \A p \in Procs : pc[p] = "switchOff" => cur[p] # c

\* A call names its kind until the end, so that what ended the renewals is
\* still known; and what an edit will write back was live, unless they ended.
SurvivalInv ==
    /\ \A r \in Requests : pc[r] = "idle" => call[r] = Blank
    /\ \A p \in Procs : pc[p] \in {"updateRead", "updateSave"} => p \in Requests /\ call[p].kind = "update"
    /\ \A p \in Procs : pc[p] = "setStatus" => p \in Requests
    /\ \A p \in Procs : pc[p] \in {"insert", "switchOff"} => rows[cur[p]].status # "none"
    /\ \A p \in Procs : pc[p] = "updateSave" => seen[p].status \in {"active", "held"} \/ (seen[p].status = "revoked" /\ Ended)
    /\ \A c \in Certs : rows[c].status \in {"revoked", "deleted"} => Ended
    /\ Ended \/ \E c \in Certs : Keeper(c)

LEMMA SurvivalInit == Init => SurvivalInv
  <1> SUFFICES ASSUME Init PROVE SurvivalInv
    OBVIOUS
  <1>1. 1 \in Certs /\ rows[1].status = "active" /\ rows[1].auto
    BY RenewalBoundAssumption DEF Init, FirstRow, Certs
  <1>2. \A c \in Certs : rows[c].status \notin {"revoked", "deleted"}
    BY DEF Init, FirstRow, NoRow
  <1>3. \A p \in Procs : pc[p] = "idle" /\ call[p] = Blank
    BY DEF Init
  <1>4. Keeper(1)
    BY <1>1, <1>3 DEF Keeper, Live
  <1> QED
    BY <1>1, <1>2, <1>3, <1>4 DEF SurvivalInv, Procs

\* What ended the renewals stays known.
LEMMA EndedStays ==
    ASSUME TypeInv, NEW p \in Procs, Keeps(p), Ended PROVE Ended'
  BY DEF Keeps, Apart, Ended, Procs

\* The steps that do not write the certificates.
LEMMA SurvivalQuiet ==
    ASSUME TypeInv, SurvivalInv, NEW p \in Procs, Keeps(p), UNCHANGED rows,
           pc'[p] \notin {"updateRead", "setStatus"},
           pc'[p] \in {"insert", "switchOff"} => rows[cur'[p]].status # "none",
           pc'[p] # "switchOff",
           pc'[p] = "updateSave" => /\ pc[p] = "updateRead"
                                    /\ seen'[p].status \in {"active", "held"} \/ (seen'[p].status = "revoked" /\ Ended)
    PROVE  SurvivalInv'
  <1>1. \A q \in Procs \ {p} : Apart(p, q)
    BY DEF Keeps
  <1>2. Ended => Ended'
    BY EndedStays
  <1>3. \A r \in Requests : pc'[r] = "idle" => call'[r] = Blank
    BY <1>1 DEF SurvivalInv, Keeps, Apart, Procs
  <1>4. \A q \in Procs : pc'[q] \in {"updateRead", "updateSave"} => q \in Requests /\ call'[q].kind = "update"
    BY <1>1 DEF SurvivalInv, Keeps, Apart
  <1>5. \A q \in Procs : pc'[q] = "setStatus" => q \in Requests
    BY <1>1 DEF SurvivalInv, Apart
  <1>6. \A q \in Procs : pc'[q] \in {"insert", "switchOff"} => rows'[cur'[q]].status # "none"
    BY <1>1 DEF SurvivalInv, Apart
  <1>7. \A q \in Procs : pc'[q] = "updateSave" => seen'[q].status \in {"active", "held"} \/ (seen'[q].status = "revoked" /\ Ended')
    BY <1>1, <1>2 DEF SurvivalInv, Apart
  <1>8. \A c \in Certs : Keeper(c) => Keeper(c)'
    BY <1>1 DEF Keeper, Live, Apart
  <1> QED
    BY <1>2, <1>3, <1>4, <1>5, <1>6, <1>7, <1>8 DEF SurvivalInv

LEMMA SurvivalRead ==
    ASSUME TypeInv, SurvivalInv, NEW p \in Procs, RenewRead(p) \/ UpdateRead(p)
    PROVE  SurvivalInv'
  <1> USE DEF Goto, TypeInv, TypeOK, ControlOK, MemoryOK
  <1>1. Keeps(p) /\ rows' = rows
    BY StepKeeps DEF RenewRead, UpdateRead, RenewStep, EditStep, world
  <1>2. CASE RenewRead(p)
    <2>1. \/ pc'[p] = "renewNext"
          \/ pc'[p] = "insert" /\ \E c \in Certs : cur'[p] = c /\ Live(c)
      BY <1>2 DEF RenewRead, Renewable
    <2>2. pc'[p] = "insert" => rows[cur'[p]].status # "none"
      BY <2>1 DEF Live
    <2> QED
      BY <1>1, <2>1, <2>2, SurvivalQuiet
  <1>3. CASE UpdateRead(p) /\ Stop(p)
    BY <1>1, <1>3, StopKeeps, SurvivalQuiet DEF Resting
  <1>4. CASE UpdateRead(p) /\ ~Stop(p)
    <2>1. /\ pc[p] = "updateRead" /\ pc'[p] = "updateSave" /\ cur[p] \in Certs
          /\ Exists(cur[p]) /\ seen'[p] = rows[cur[p]]
      BY <1>4 DEF UpdateRead, StepsOK
    <2>2. rows[cur[p]].status \in {"active", "held", "revoked"}
      BY <2>1 DEF Exists, TablesOK, CertRows, Statuses
    <2>3. seen'[p].status \in {"active", "held"} \/ (seen'[p].status = "revoked" /\ Ended)
      BY <2>1, <2>2 DEF SurvivalInv
    <2> QED
      BY <1>1, <2>1, <2>3, SurvivalQuiet
  <1> QED
    BY <1>2, <1>3, <1>4

\* The renewed certificate keeps the chain going before the old one stops.
LEMMA SurvivalInsert ==
    ASSUME TypeInv, SurvivalInv, NEW p \in Procs, RenewInsert(p)
    PROVE  SurvivalInv'
  <1> USE DEF Goto, TypeInv, TypeOK, ControlOK, MemoryOK
  <1>1. Keeps(p) /\ pc[p] = "insert" /\ cur[p] \in Certs /\ rows[cur[p]].status # "none"
    BY StepKeeps DEF RenewInsert, RenewStep, StepsOK, SurvivalInv
  <1>2. PICK c \in Fresh : rows' = [rows EXCEPT ![c] = Renewed(p)]
    BY DEF RenewInsert
  <1>3. c \in Certs /\ rows[c].status = "none"
    BY <1>2 DEF Fresh
  <1>4. rows'[c] = Renewed(p) /\ \A d \in Certs \ {c} : rows'[d] = rows[d]
    BY <1>2, <1>3 DEF TablesOK
  <1>5. rows'[c].status = "active" /\ rows'[c].auto = seen[p].auto
    BY <1>4 DEF Renewed
  <1>6. \/ seen[p].auto /\ pc'[p] = "switchOff" /\ cur'[p] = cur[p]
        \/ ~seen[p].auto /\ pc'[p] = "deployGet"
    BY DEF RenewInsert
  <1>7. \A q \in Procs \ {p} : Apart(p, q)
    BY <1>1 DEF Keeps
  <1>8. Ended => Ended'
    BY <1>1, EndedStays
  <1>9. \A d \in Certs : rows[d].status # "none" => rows'[d] = rows[d]
    BY <1>3, <1>4
  <1>10. \A q \in Procs : pc'[q] \in {"insert", "switchOff"} =>
            cur'[q] = cur[q] /\ cur[q] \in Certs /\ rows[cur[q]].status # "none"
    BY <1>1, <1>6, <1>7 DEF Apart, SurvivalInv, StepsOK
  <1>11. \A q \in Procs : pc'[q] \in {"insert", "switchOff"} => rows'[cur'[q]].status # "none"
    BY <1>9, <1>10
  <1>12. \A d \in Certs : rows'[d].status \in {"revoked", "deleted"} => Ended'
    BY <1>4, <1>5, <1>8 DEF SurvivalInv
  <1>13. Ended' \/ \E d \in Certs : Keeper(d)'
    <2>1. CASE seen[p].auto
      <3>1. \A q \in Procs : pc'[q] = "switchOff" => cur'[q] # c
        BY <1>3, <1>10
      <3> QED
        BY <1>3, <1>5, <2>1, <3>1 DEF Keeper, Live
    <2>2. CASE ~seen[p].auto
      <3>1. \A d \in Certs : Keeper(d) => Keeper(d)'
        <4>1. \A q \in Procs : pc'[q] = "switchOff" => pc[q] = "switchOff" /\ cur'[q] = cur[q]
          BY <1>6, <1>7, <2>2 DEF Apart
        <4>2. \A d \in Certs : Live(d) => rows'[d] = rows[d]
          BY <1>9 DEF Live
        <4> QED
          BY <4>1, <4>2 DEF Keeper, Live
      <3> QED
        BY <1>8, <3>1 DEF SurvivalInv
    <2> QED
      BY <2>1, <2>2
  <1>14. \A q \in Procs :
           /\ pc'[q] \in {"updateRead", "updateSave"} => q \in Requests /\ call'[q].kind = "update"
           /\ pc'[q] = "setStatus" => q \in Requests
           /\ pc'[q] = "updateSave" => seen'[q].status \in {"active", "held"} \/ (seen'[q].status = "revoked" /\ Ended')
    BY <1>6, <1>7, <1>8 DEF Apart, SurvivalInv
  <1>15. \A r \in Requests : pc'[r] = "idle" => call'[r] = Blank
    BY <1>1, <1>7 DEF Keeps, Apart, SurvivalInv, Procs
  <1> QED
    BY <1>11, <1>12, <1>13, <1>14, <1>15 DEF SurvivalInv

\* The steps that write one row, and leave it what it was or end the renewals:
\* no other certificate is touched, and nobody is about to switch more off.
LEMMA SurvivalWrite ==
    ASSUME TypeInv, SurvivalInv, NEW p \in Procs, Keeps(p), NEW c \in Certs, NEW row \in CertRows,
           rows' = [rows EXCEPT ![c] = row],
           rows[c].status # "none" => row.status # "none",
           row.status \in {"revoked", "deleted"} => Ended',
           pc'[p] \in Resting \cup {"deployGet"},
           Keeper(c) => Ended' \/ (row.status \in {"active", "held"} /\ row.auto)
    PROVE  SurvivalInv'
  <1>1. rows'[c] = row /\ \A d \in Certs \ {c} : rows'[d] = rows[d]
    BY DEF TypeInv, TypeOK, TablesOK
  <1>2. \A q \in Procs \ {p} : Apart(p, q)
    BY DEF Keeps
  <1>3. Ended => Ended'
    BY EndedStays
  <1>4. \A r \in Requests : pc'[r] = "idle" => call'[r] = Blank
    BY <1>2 DEF Keeps, Apart, SurvivalInv, Procs
  <1>5. \A q \in Procs :
           /\ pc'[q] \in {"updateRead", "updateSave"} => q \in Requests /\ call'[q].kind = "update"
           /\ pc'[q] = "setStatus" => q \in Requests
           /\ pc'[q] = "updateSave" => seen'[q].status \in {"active", "held"} \/ (seen'[q].status = "revoked" /\ Ended')
    BY <1>2, <1>3 DEF Apart, SurvivalInv, Resting
  <1>6. \A q \in Procs : pc'[q] \in {"insert", "switchOff"} =>
           pc[q] = pc'[q] /\ cur'[q] = cur[q] /\ cur[q] \in Certs /\ rows[cur[q]].status # "none"
    BY <1>2 DEF Apart, SurvivalInv, StepsOK, TypeInv, Resting
  <1>7. \A q \in Procs : pc'[q] \in {"insert", "switchOff"} => rows'[cur'[q]].status # "none"
    BY <1>1, <1>6
  <1>8. \A d \in Certs : rows'[d].status \in {"revoked", "deleted"} => Ended'
    BY <1>1, <1>3 DEF SurvivalInv
  <1>9. \A d \in Certs : Keeper(d) => Ended' \/ Keeper(d)'
    BY <1>1, <1>6 DEF Keeper, Live
  <1> QED
    BY <1>3, <1>4, <1>5, <1>7, <1>8, <1>9 DEF SurvivalInv

LEMMA SurvivalSave ==
    ASSUME TypeInv, SurvivalInv, NEW p \in Procs, SwitchOff(p) \/ UpdateSave(p) \/ SetStatus(p)
    PROVE  SurvivalInv'
  <1> USE DEF Goto, TypeInv, TypeOK, ControlOK, MemoryOK
  <1>1. Keeps(p) /\ cur[p] \in Certs /\ rows[cur[p]] \in CertRows
    BY StepKeeps DEF SwitchOff, UpdateSave, SetStatus, RenewStep, EditStep, StepsOK, TablesOK
  <1>2. Ended => Ended'
    BY <1>1, EndedStays
  <1>3. CASE SwitchOff(p)
    <2> DEFINE row == [rows[cur[p]] EXCEPT !.auto = IF Exists(cur[p]) THEN FALSE ELSE @]
    <2>1. row \in CertRows /\ row.status = rows[cur[p]].status
      BY <1>1 DEF CertRows
    <2>2. rows' = [rows EXCEPT ![cur[p]] = row] /\ pc'[p] = "deployGet"
      BY <1>3 DEF SwitchOff
    <2>3. ~Keeper(cur[p])
      BY <1>3 DEF SwitchOff, Keeper
    <2>4. row.status \in {"revoked", "deleted"} => Ended'
      BY <1>1, <1>2, <2>1 DEF SurvivalInv
    <2> HIDE DEF row
    <2> QED
      BY <1>1, <2>1, <2>2, <2>3, <2>4, SurvivalWrite
  <1>4. CASE UpdateSave(p)
    <2> DEFINE row == [seen[p] EXCEPT !.auto = call[p].flag, !.window = call[p].days]
    <2>1. seen[p] \in CertRows /\ call[p].flag \in BOOLEAN /\ call[p].days \in Nat
      BY CallsTyped
    <2>2. row \in CertRows /\ row.status = seen[p].status /\ row.auto = call[p].flag
      BY <2>1 DEF CertRows
    <2>3. rows' = [rows EXCEPT ![cur[p]] = row] /\ pc'[p] \in Resting
      BY <1>4, StopKeeps DEF UpdateSave
    <2>4. p \in Requests /\ call[p].kind = "update" /\ (seen[p].status \in {"active", "held"} \/ (seen[p].status = "revoked" /\ Ended))
      BY <1>4 DEF UpdateSave, SurvivalInv
    <2>5. ~call[p].flag => Ended'
      BY <1>2, <2>4 DEF Ended
    <2>6. row.status # "none"
      BY <1>2, <2>2, <2>4
    <2>7. row.status \in {"revoked", "deleted"} => Ended'
      BY <1>2, <2>2, <2>4
    <2> HIDE DEF row
    <2> QED
      BY <1>1, <2>2, <2>3, <2>4, <2>5, <2>6, <2>7, SurvivalWrite
  <1>5. CASE SetStatus(p)
    <2> DEFINE row == [rows[cur[p]] EXCEPT !.status = After(call[p].kind, @)]
    <2>1. After(call[p].kind, rows[cur[p]].status) \in Statuses
      BY <1>1, AfterTyped DEF CertRows
    <2>2. /\ row \in CertRows /\ row.auto = rows[cur[p]].auto
          /\ row.status = After(call[p].kind, rows[cur[p]].status)
      BY <1>1, <2>1 DEF CertRows
    <2>3. rows' = [rows EXCEPT ![cur[p]] = row] /\ pc'[p] \in Resting /\ p \in Requests
      BY <1>5, StopKeeps DEF SetStatus, SurvivalInv
    <2>4. call[p].kind \in {"revoke", "delete"} => Ended'
      BY <1>2, <2>3 DEF Ended
    <2>5. \/ row.status = rows[cur[p]].status
          \/ call[p].kind = "hold" /\ row.status = "held"
          \/ call[p].kind = "release" /\ row.status = "active"
          \/ call[p].kind \in {"revoke", "delete"} /\ row.status \in {"revoked", "deleted"}
      BY <2>2 DEF After
    <2>6. rows[cur[p]].status \in {"revoked", "deleted"} => Ended'
      BY <1>1, <1>2 DEF SurvivalInv
    <2>7. Keeper(cur[p]) => rows[cur[p]].status \in {"active", "held"} /\ rows[cur[p]].auto
      BY DEF Keeper, Live
    <2> HIDE DEF row
    <2> QED
      BY <1>1, <2>2, <2>3, <2>4, <2>5, <2>6, <2>7, SurvivalWrite
  <1> QED
    BY <1>3, <1>4, <1>5

LEMMA SurvivalStep ==
    ASSUME TypeInv, SurvivalInv, NEW p \in Procs,
           RenewStep(p) \/ PushStep(p) \/ JobStep(p) \/ EditStep(p) \/ Fail(p)
    PROVE  SurvivalInv'
  <1> Keeps(p)
    BY StepKeeps
  <1> USE DEF Goto, world, memory, TypeInv, TypeOK, ControlOK, MemoryOK
  <1>1. CASE (Stop(p) \/ Deployed(p)) /\ UNCHANGED rows
    BY <1>1, StopKeeps, DeployedKeeps, SurvivalQuiet DEF Resting
  <1>2. CASE RenewRead(p) \/ UpdateRead(p)
    BY <1>2, SurvivalRead
  <1>3. CASE RenewInsert(p)
    BY <1>3, SurvivalInsert
  <1>4. CASE SwitchOff(p) \/ UpdateSave(p) \/ SetStatus(p)
    BY <1>4, SurvivalSave
  <1>5. CASE RenewDone(p) \/ DeployGet(p) \/ DeployTargets(p) \/ PushStart(p) \/ PushDone(p) \/ Deliver(p) \/ Record(p)
    <2>1. UNCHANGED rows
      BY <1>5 DEF RenewDone, DeployGet, DeployTargets, PushStart, PushDone, Deliver, Record
    <2>2. \/ Stop(p) \/ Deployed(p)
          \/ pc'[p] \in {"jobTargets", "deployTargets", "push", "deliver", "record"}
      BY <1>5 DEF RenewDone, DeployGet, DeployTargets, PushStart, PushDone, Deliver, Record, PushSteps
    <2> QED
      BY <1>1, <2>1, <2>2, SurvivalQuiet
  <1>6. CASE JobTargets(p) \/ JobList(p) \/ TestRead(p) \/ TestList(p) \/ TargetRead(p)
    <2>1. UNCHANGED rows
      BY <1>6 DEF JobTargets, JobList, TestRead, TestList, TargetRead
    <2>2. Stop(p) \/ pc'[p] \in {"jobList", "push", "testList", "targetSave"}
      BY <1>6 DEF JobTargets, JobList, TestRead, TestList, TargetRead, ChooseMatch
    <2> QED
      BY <1>1, <2>1, <2>2, SurvivalQuiet
  <1>7. CASE TargetSave(p) \/ TargetInsert(p) \/ TargetDelete(p)
    BY <1>1, <1>7 DEF TargetSave, TargetInsert, TargetDelete
  <1>8. CASE Fail(p)
    <2>1. UNCHANGED rows
      BY <1>8 DEF Fail
    <2>2. Stop(p) \/ Deployed(p) \/ pc'[p] \in {"renewNext", "deployGet", "push"}
      BY <1>8 DEF Fail, StatementFails
    <2> QED
      BY <1>1, <2>1, <2>2, SurvivalQuiet
  <1> QED
    BY <1>2, <1>3, <1>4, <1>5, <1>6, <1>7, <1>8 DEF RenewStep, PushStep, JobStep, EditStep

LEMMA SurvivalBegin ==
    ASSUME TypeInv, SurvivalInv, NEW r \in Requests, NEW k \in Calls, Begin(r, k)
    PROVE  SurvivalInv'
  <1> USE DEF TypeInv, TypeOK, ControlOK, MemoryOK
  <1>1. /\ r \in Procs /\ pc[r] = "idle" /\ call[r] = Blank /\ UNCHANGED <<rows, seen>>
        /\ pc'[r] = FirstStep[k.kind] /\ call'[r] = k
    BY DEF Begin, Goto, world, SurvivalInv, Procs
  <1>2. \A q \in Procs \ {r} : pc'[q] = pc[q] /\ call'[q] = call[q] /\ cur'[q] = cur[q]
    BY <1>1 DEF Begin, Goto
  <1>3. /\ FirstStep[k.kind] \notin {"idle", "insert", "switchOff", "updateSave"}
        /\ FirstStep[k.kind] = "updateRead" => k.kind = "update"
    BY CallKinds DEF FirstStep, AllKinds, CertKinds, TargetKinds
  <1>4. Ended => Ended'
    BY <1>1, <1>2 DEF Ended, Blank, Job, Procs
  <1>5. \A c \in Certs : Keeper(c) => Keeper(c)'
    <2> SUFFICES ASSUME NEW c \in Certs, Keeper(c) PROVE Keeper(c)'
      OBVIOUS
    <2>1. \A q \in Procs : pc'[q] = "switchOff" => cur'[q] # c
      BY <1>1, <1>2, <1>3 DEF Keeper
    <2> QED
      BY <1>1, <2>1 DEF Keeper, Live
  <1>6. \A q \in Requests : pc'[q] = "idle" => call'[q] = Blank
    BY <1>1, <1>2, <1>3 DEF SurvivalInv, Procs
  <1>7. \A q \in Procs :
           /\ pc'[q] \in {"updateRead", "updateSave"} => q \in Requests /\ call'[q].kind = "update"
           /\ pc'[q] = "setStatus" => q \in Requests
           /\ pc'[q] \in {"insert", "switchOff"} => rows'[cur'[q]].status # "none"
           /\ pc'[q] = "updateSave" => seen'[q].status \in {"active", "held"} \/ (seen'[q].status = "revoked" /\ Ended')
    BY <1>1, <1>2, <1>3, <1>4 DEF SurvivalInv
  <1>8. \A c \in Certs : rows'[c].status \in {"revoked", "deleted"} => Ended'
    BY <1>1, <1>4 DEF SurvivalInv
  <1> QED
    BY <1>4, <1>5, <1>6, <1>7, <1>8 DEF SurvivalInv

LEMMA SurvivalNext == TypeInv /\ SurvivalInv /\ [Next]_vars => SurvivalInv'
  <1> SUFFICES ASSUME TypeInv, SurvivalInv, [Next]_vars PROVE SurvivalInv'
    OBVIOUS
  <1>1. ASSUME NEW p \in Procs, RenewStep(p) \/ PushStep(p) \/ JobStep(p) \/ EditStep(p) \/ Fail(p)
        PROVE  SurvivalInv'
    BY <1>1, SurvivalStep
  <1>2. ASSUME NEW r \in Requests, NEW k \in Calls, Begin(r, k) PROVE SurvivalInv'
    BY <1>2, SurvivalBegin
  <1>3. ASSUME NEW s \in Schedulers, PassStart(s) PROVE SurvivalInv'
    <2>1. s \in Procs /\ s \notin Requests /\ UNCHANGED rows
      BY <1>3, RenewalProcsAssumption DEF PassStart, Procs, world
    <2>2. Keeps(s) /\ pc'[s] = "renewNext"
      BY <1>3, <2>1 DEF PassStart, Goto, Keeps, Apart, TypeInv, TypeOK, ControlOK, MemoryOK
    <2> QED
      BY <2>1, <2>2, SurvivalQuiet
  <1>4. CASE Tick \/ UNCHANGED vars
    BY <1>4 DEF Tick, vars, world, memory, SurvivalInv, Ended, Keeper, Live
  <1> QED
    BY <1>1, <1>2, <1>3, <1>4 DEF Next, Procs

\* Renewals, edits, holds, failures and passes of several replicas may meet in
\* any order: as long as nobody revokes or deletes a certificate or switches its
\* renewal off, one that renews itself is left.
THEOREM RenewalNeverStops == Spec => []RenewalSurvives
  <1>1. Init => TypeInv /\ SurvivalInv
    BY InitTyped, SurvivalInit
  <1>2. TypeInv /\ SurvivalInv /\ [Next]_vars => (TypeInv /\ SurvivalInv)'
    BY NextTyped, SurvivalNext
  <1>3. SurvivalInv => RenewalSurvives
    BY DEF SurvivalInv, RenewalSurvives, Keeper
  <1> QED
    BY <1>1, <1>2, <1>3, PTL DEF Spec

=============================================================================
