----------------------------- MODULE Revocation -----------------------------
(***************************************************************************)
(* Revoking the certificates of one authority, and publishing the result.  *)
(*                                                                         *)
(* The handlers of service/certificate.go and service/authority.go read a  *)
(* row, decide, and write the row back.  The database makes each statement *)
(* atomic and nothing more: no handler below runs in a transaction, except *)
(* the deletion of a certificate.  So every handler is a sequence of       *)
(* actions, one per statement, and `pc` says which statement is next.      *)
(* Between two statements anything may happen: another request of the same *)
(* replica, another replica, the scheduler, or `certio scan`.              *)
(*                                                                         *)
(* A request is one call of the API; it runs once.  A scheduler runs its   *)
(* jobs for ever.  The clock moves on its own.                             *)
(***************************************************************************)
EXTENDS Naturals, FiniteSets

CONSTANTS
    Certs,          \* the certificates of the authority, all issued
    Requests,       \* the API calls, each made at most once
    Schedulers,     \* the scheduler of each replica, and `certio scan`
    Kinds,          \* the calls and jobs this instance makes
    Clocks,         \* whose end may come near: "certificates", "authority"
    Reasons,        \* the reason codes callers revoke with
    Hold,           \* the reason code certificateHold (6)
    Protected,      \* the CA key needs a passphrase to sign
    Serial,         \* TRUE: a process starts only while no other one runs
    MaxFailures,    \* bound: how many statements fail or processes crash
    MaxCRLNumber,   \* bound: the scheduler reissues an unchanged list below it
    None            \* no certificate, no row, no argument

RevokeKinds == {"revoke", "bulk"}
CertKinds   == {"release", "update", "delete"}
CAKinds     == {"updateCA", "renewCA", "crlFor", "generate"}
JobKinds    == {"scan", "crls"}

ASSUME KindsAssumption == Kinds \subseteq RevokeKinds \cup CertKinds \cup CAKinds \cup JobKinds
ASSUME ProcsAssumption == Requests \cap Schedulers = {}
ASSUME NoneAssumption  == None \notin Certs \cup Requests \cup Reasons \cup {Hold}
ASSUME FlagsAssumption == Protected \in BOOLEAN /\ Serial \in BOOLEAN
ASSUME BoundAssumption == MaxFailures \in Nat /\ MaxCRLNumber \in Nat

Procs == Requests \cup Schedulers

-----------------------------------------------------------------------------
(* Rows and clock                                                          *)

Ages     == {"active", "expiring", "expired"}
Statuses == Ages \cup {"revoked", "held"}
Absent   == "absent"                \* no certificate row has this primary key

\* A revocation is known by the request that wrote it: no request writes two
\* for one certificate, so the pair is the primary key of the row.
Revocations == [id : Requests, reason : Reasons \cup {Hold}]
Entries     == [cert : Certs, reason : Reasons \cup {Hold}]

ASSUME RowAssumption == None \notin Revocations

\* The columns of an authority row that matter here: `cert` counts its
\* renewals, and stands for cert_pem, serial_number and the validity dates.
Authorities == [number : Nat, list : SUBSET Entries, cert : Nat, status : Ages]

\* A call of the API with the arguments the handlers look at.
Calls ==
    LET Made(kinds, targets, reasons) ==
          [kind : kinds \cap Kinds, certs : targets, reason : reasons,
           pass : IF Protected THEN BOOLEAN ELSE {FALSE}]
        One == {{c} : c \in Certs}
    IN  Made({"revoke"}, One, Reasons)
          \cup Made({"bulk"}, (SUBSET Certs) \ {{}}, Reasons)
          \cup Made(CertKinds, One, {None})
          \cup Made(CAKinds, {{}}, {None})

NoCall == [kind |-> "none", certs |-> {}, reason |-> None, pass |-> FALSE]

VARIABLES
    status,     \* certificates.status, Absent where there is no row
    revs,       \* the revocations table: certificate_id is unique in it
    ca,         \* the authority row
    age,        \* where the clock is in each certificate's validity
    caAge,      \* where the clock is in the CA's first certificate's validity
    pc,         \* the next statement of each process
    call,       \* what each request was asked
    result,     \* what each request answered
    todo,       \* the certificates a request still has to revoke
    cur,        \* the certificate it is revoking, or works on
    seen,       \* the status of the certificate rows a process has read
    found,      \* the id of the revocation row a process has read
    caSeen,     \* the authority row a process has read
    entries,    \* the entries of the list a process is about to sign
    failures    \* how many failures there have been

dbVars    == <<status, revs, ca>>
clockVars == <<age, caAge>>
memVars   == <<todo, cur, seen, found, caSeen, entries>>
vars      == <<dbVars, clockVars, pc, call, result, memVars, failures>>

FirstCA  == [number |-> 0, list |-> {}, cert |-> 0, status |-> "active"]
Unseen   == [c \in Certs |-> Absent]

RevokeSteps  == {"next", "findHold", "dropHold", "insert", "saveRevoked"}
ReleaseSteps == {"releaseRead", "releaseFind", "releaseDrop", "releaseSave"}
UpdateSteps  == {"updateRead", "updateSave"}
CASteps      == {"caRead", "caSave"}
CRLSteps     == {"crlRow", "crlRevs", "crlSave"}
ScanSteps    == {"scanRow", "scanCASave"}
Resting      == {"idle", "done"}
Steps == Resting \cup RevokeSteps \cup ReleaseSteps \cup UpdateSteps \cup {"delete"}
           \cup CASteps \cup {"crlForRead"} \cup CRLSteps \cup ScanSteps

TablesOK ==
    /\ status \in [Certs -> Statuses \cup {Absent}]
    /\ revs \in [Certs -> Revocations \cup {None}]
    /\ ca \in Authorities

ClocksOK == age \in [Certs -> Ages] /\ caAge \in Ages

MemoryOK ==
    /\ todo \in [Procs -> SUBSET Certs]
    /\ cur \in [Procs -> Certs \cup {None}]
    /\ seen \in [Procs -> [Certs -> Statuses \cup {Absent}]]
    /\ found \in [Procs -> Requests \cup {None}]
    /\ caSeen \in [Procs -> Authorities]
    /\ entries \in [Procs -> SUBSET Entries]

ProcsOK ==
    /\ pc \in [Procs -> Steps]
    /\ call \in [Procs -> Calls \cup {NoCall}]
    /\ result \in [Procs -> {"none", "ok", "error"}]

TypeOK == TablesOK /\ ClocksOK /\ MemoryOK /\ ProcsOK /\ failures \in Nat

Init ==
    /\ status = [c \in Certs |-> "active"]
    /\ revs = [c \in Certs |-> None]
    /\ ca = FirstCA
    /\ age = [c \in Certs |-> "active"]
    /\ caAge = "active"
    /\ pc = [p \in Procs |-> "idle"]
    /\ call = [p \in Procs |-> NoCall]
    /\ result = [p \in Procs |-> "none"]
    /\ todo = [p \in Procs |-> {}]
    /\ cur = [p \in Procs |-> None]
    /\ seen = [p \in Procs |-> Unseen]
    /\ found = [p \in Procs |-> None]
    /\ caSeen = [p \in Procs |-> FirstCA]
    /\ entries = [p \in Procs |-> {}]
    /\ failures = 0

-----------------------------------------------------------------------------
(* Steps every handler shares                                              *)

Goto(p, label) == pc' = [pc EXCEPT ![p] = label]

\* A handler returns: what it had read is gone, and a request has its answer
\* (the one it already had, when only the CRL was left to publish).
Stop(p, answer) ==
    /\ Goto(p, IF p \in Schedulers THEN "idle" ELSE "done")
    /\ result' = IF p \in Requests /\ result[p] = "none"
                   THEN [result EXCEPT ![p] = answer] ELSE result
    /\ todo' = [todo EXCEPT ![p] = {}]
    /\ cur' = [cur EXCEPT ![p] = None]
    /\ seen' = [seen EXCEPT ![p] = Unseen]
    /\ found' = [found EXCEPT ![p] = None]
    /\ caSeen' = [caSeen EXCEPT ![p] = FirstCA]
    /\ entries' = [entries EXCEPT ![p] = {}]

\* LoadCA: the key of a protected CA opens only with the passphrase.
CanSign(p) == ~Protected \/ call[p].pass

Publish_Forgotten(p) == Stop(p, "ok")

\* After its last write on the tables a handler republishes the list, when it
\* can; the answer to the caller no longer depends on it.
Publish(p) ==
    IF CanSign(p)
      THEN /\ Goto(p, "crlRow")
           /\ result' = [result EXCEPT ![p] = "ok"]
           /\ UNCHANGED memVars
      ELSE Stop(p, "ok")

\* RevocationRepo.Delete by primary key: TRUE when it deletes a row.
RowIs(c, id) == revs[c] # None /\ revs[c].id = id

FirstStep == [revoke |-> "next", bulk |-> "next", release |-> "releaseRead",
              update |-> "updateRead", delete |-> "delete", updateCA |-> "caRead",
              renewCA |-> "caRead", crlFor |-> "crlForRead", generate |-> "crlRow"]

MayStart == Serial => \A q \in Procs : pc[q] \in Resting

Begin(r, k) ==
    /\ pc[r] = "idle"
    /\ MayStart
    /\ call' = [call EXCEPT ![r] = k]
    /\ todo' = [todo EXCEPT ![r] = IF k.kind \in RevokeKinds THEN k.certs ELSE {}]
    /\ \E c \in (IF k.kind \in CertKinds THEN k.certs ELSE {None}) :
          cur' = [cur EXCEPT ![r] = c]
    /\ Goto(r, FirstStep[k.kind])
    /\ UNCHANGED <<dbVars, clockVars, result, seen, found, caSeen, entries, failures>>

-----------------------------------------------------------------------------
(* Revoke, and BulkRevoke, which calls it once per certificate             *)

Bulk(r) == call[r].kind = "bulk"

Refuse_Swallows(r) == Stop(r, "ok")

\* Revoke returns an error: a bulk request notes it and takes the next one.
Refuse(r) ==
    IF Bulk(r) THEN Goto(r, "next") /\ UNCHANGED <<result, memVars>>
               ELSE Stop(r, "error")

\* What Revoke does next, by the status of the row GetWithAuthority returned.
AfterRead(st) ==
    CASE st \in {Absent, "revoked"} -> "next"
      [] st = "held" -> "findHold"
      [] OTHER -> "insert"

\* A call of Revoke for the next certificate knows no hold's row yet.
RevokeRead(r) ==
    /\ pc[r] = "next"
    /\ \E c \in todo[r] :
          IF AfterRead(status[c]) = "next" /\ ~Bulk(r)
            THEN Stop(r, "error")
            ELSE /\ todo' = [todo EXCEPT ![r] = @ \ {c}]
                 /\ cur' = [cur EXCEPT ![r] = c]
                 /\ Goto(r, AfterRead(status[c]))
                 /\ found' = [found EXCEPT ![r] = None]
                 /\ UNCHANGED <<result, seen, caSeen, entries>>
    /\ UNCHANGED <<dbVars, clockVars, call, failures>>

\* The hold's row, when there is one, is what the new row replaces.  A query
\* that fails is taken for one that finds no row (Fail).
RevokeFindHold(r) ==
    /\ pc[r] = "findHold"
    /\ IF revs[cur[r]] = None
         THEN Goto(r, "insert") /\ found' = [found EXCEPT ![r] = None]
         ELSE Goto(r, "dropHold") /\ found' = [found EXCEPT ![r] = revs[cur[r]].id]
    /\ UNCHANGED <<dbVars, clockVars, call, result, todo, cur, seen, caSeen, entries, failures>>

RevokeDropHold(r) ==
    /\ pc[r] = "dropHold"
    /\ IF RowIs(cur[r], found[r])
         THEN /\ revs' = [revs EXCEPT ![cur[r]] = None]
              /\ Goto(r, "insert")
              /\ UNCHANGED <<result, memVars>>
         ELSE Refuse(r) /\ UNCHANGED revs
    /\ UNCHANGED <<status, ca, clockVars, call, failures>>

Insertable_NoForeignKey(c) == revs[c] = None

Insertable_NoUniqueIndex(c) == status[c] # Absent

\* RevocationRepo.Create: the unique index on certificate_id, and the foreign
\* key to certificates, are what an INSERT may fail on.
Insertable(c) == revs[c] = None /\ status[c] # Absent

NewRevocation_AlwaysHold(r) == [id |-> r, reason |-> Hold]

NewRevocation_WrongColumn(r) == [id |-> r, reason |-> cur[r]]

NewRevocation(r) == [id |-> r, reason |-> call[r].reason]

RevokeInsert(r) ==
    /\ pc[r] = "insert"
    /\ IF Insertable(cur[r])
         THEN /\ revs' = [revs EXCEPT ![cur[r]] = NewRevocation(r)]
              /\ Goto(r, "saveRevoked")
              /\ UNCHANGED <<result, memVars>>
         ELSE Refuse(r) /\ UNCHANGED revs
    /\ UNCHANGED <<status, ca, clockVars, call, failures>>

\* Save writes the whole row it was given, and inserts it again when it is gone.
RevokeSave(r) ==
    /\ pc[r] = "saveRevoked"
    /\ status' = [status EXCEPT ![cur[r]] =
                    IF call[r].reason = Hold THEN "held" ELSE "revoked"]
    /\ IF Bulk(r)
         THEN /\ Goto(r, "next")
              /\ result' = [result EXCEPT ![r] = "ok"]
              /\ UNCHANGED memVars
         ELSE Publish(r)
    /\ UNCHANGED <<revs, ca, clockVars, call, failures>>

\* The bulk request has tried them all: one list for the whole batch.
BulkPublish(r) ==
    /\ pc[r] = "next" /\ todo[r] = {}
    /\ IF result[r] = "ok" THEN Publish(r) ELSE Stop(r, "error")
    /\ UNCHANGED <<dbVars, clockVars, call, failures>>

-----------------------------------------------------------------------------
(* ReleaseHold, UpdateCertificate, DeleteCertificate                       *)

Releasable_AnyRevocation(st) == st \in {"held", "revoked"}

\* "Only a hold can be released": the test is on the status column.
Releasable(st) == st = "held"

ReleaseRead(r) ==
    /\ pc[r] = "releaseRead"
    /\ IF Releasable(status[cur[r]])
         THEN Goto(r, "releaseFind") /\ UNCHANGED <<result, memVars>>
         ELSE Stop(r, "error")
    /\ UNCHANGED <<dbVars, clockVars, call, failures>>

ReleaseFind(r) ==
    /\ pc[r] = "releaseFind"
    /\ IF revs[cur[r]] # None
         THEN /\ Goto(r, "releaseDrop")
              /\ found' = [found EXCEPT ![r] = revs[cur[r]].id]
              /\ UNCHANGED <<result, todo, cur, seen, caSeen, entries>>
         ELSE Stop(r, "error")
    /\ UNCHANGED <<dbVars, clockVars, call, failures>>

ReleaseDrop(r) ==
    /\ pc[r] = "releaseDrop"
    /\ IF RowIs(cur[r], found[r])
         THEN /\ revs' = [revs EXCEPT ![cur[r]] = None]
              /\ Goto(r, "releaseSave")
              /\ UNCHANGED <<result, memVars>>
         ELSE Stop(r, "error") /\ UNCHANGED revs
    /\ UNCHANGED <<status, ca, clockVars, call, failures>>

\* The clock decides what the certificate becomes.
ReleaseSave(r) ==
    /\ pc[r] = "releaseSave"
    /\ status' = [status EXCEPT ![cur[r]] = age[cur[r]]]
    /\ Publish(r)
    /\ UNCHANGED <<revs, ca, clockVars, call, failures>>

UpdateRead(r) ==
    /\ pc[r] = "updateRead"
    /\ IF status[cur[r]] # Absent
         THEN /\ seen' = [seen EXCEPT ![r][cur[r]] = status[cur[r]]]
              /\ Goto(r, "updateSave")
              /\ UNCHANGED <<result, todo, cur, found, caSeen, entries>>
         ELSE Stop(r, "error")
    /\ UNCHANGED <<dbVars, clockVars, call, failures>>

\* The labels, notes and renewal settings that change are not modelled; the
\* status the row was read with is written back beside them.
UpdateSave(r) ==
    /\ pc[r] = "updateSave"
    /\ status' = [status EXCEPT ![cur[r]] = seen[r][cur[r]]]
    /\ Stop(r, "ok")
    /\ UNCHANGED <<revs, ca, clockVars, call, failures>>

\* One transaction: the revocation goes with its certificate.
DeleteCertificate(r) ==
    /\ pc[r] = "delete"
    /\ status' = [status EXCEPT ![cur[r]] = Absent]
    /\ revs' = [revs EXCEPT ![cur[r]] = IF status[cur[r]] = Absent THEN @ ELSE None]
    /\ Stop(r, IF status[cur[r]] = Absent THEN "error" ELSE "ok")
    /\ UNCHANGED <<ca, clockVars, call, failures>>

-----------------------------------------------------------------------------
(* The authority row: metadata, renewal, and the revocation list in it     *)

\* Where the clock is in the validity of the n-th certificate of the CA: a
\* renewed one does not near its end within a run.
CAAge(n) == IF n = 0 THEN caAge ELSE "active"

CARead(r) ==
    /\ pc[r] = "caRead"
    /\ IF call[r].kind = "renewCA" /\ ~CanSign(r)
         THEN Stop(r, "error")
         ELSE /\ caSeen' = [caSeen EXCEPT ![r] = ca]
              /\ Goto(r, "caSave")
              /\ UNCHANGED <<result, todo, cur, seen, found, entries>>
    /\ UNCHANGED <<dbVars, clockVars, call, failures>>

Renewed(row) ==
    [number |-> row.number, list |-> row.list, cert |-> row.cert + 1, status |-> "active"]

\* UpdateAuthority writes the row back with another name or URL, RenewAuthority
\* with another certificate; both write every column.
CASave(r) ==
    /\ pc[r] = "caSave"
    /\ ca' = IF call[r].kind = "renewCA" THEN Renewed(caSeen[r]) ELSE caSeen[r]
    /\ Stop(r, "ok")
    /\ UNCHANGED <<status, revs, clockVars, call, failures>>

\* CRLFor serves the stored list; GenerateCRL alone writes crl_number and
\* crl_pem, so there is a list exactly when the number is not 0.
CRLForRead(r) ==
    /\ pc[r] = "crlForRead"
    /\ IF ca.number = 0 /\ ~Protected
         THEN Goto(r, "crlRow") /\ UNCHANGED <<result, memVars>>
         ELSE Stop(r, IF ca.number > 0 THEN "ok" ELSE "error")
    /\ UNCHANGED <<dbVars, clockVars, call, failures>>

\* GenerateCRL: the row, then the revocations, then the whole row again.
CRLRow(p) ==
    /\ pc[p] = "crlRow"
    /\ IF CanSign(p)
         THEN /\ caSeen' = [caSeen EXCEPT ![p] = ca]
              /\ Goto(p, "crlRevs")
              /\ UNCHANGED <<result, todo, cur, seen, found, entries>>
         ELSE Stop(p, "error")
    /\ UNCHANGED <<dbVars, clockVars, call, failures>>

Current == {[cert |-> c, reason |-> revs[c].reason] : c \in {d \in Certs : revs[d] # None}}

CRLRevocations(p) ==
    /\ pc[p] = "crlRevs"
    /\ entries' = [entries EXCEPT ![p] = Current]
    /\ Goto(p, "crlSave")
    /\ UNCHANGED <<dbVars, clockVars, call, result, todo, cur, seen, found, caSeen, failures>>

Published_SameNumber(row, list) == [row EXCEPT !.list = list]

Published(row, list) ==
    [number |-> row.number + 1, list |-> list, cert |-> row.cert, status |-> row.status]

CRLSave(p) ==
    /\ pc[p] = "crlSave"
    /\ ca' = Published(caSeen[p], entries[p])
    /\ Stop(p, "ok")
    /\ UNCHANGED <<status, revs, clockVars, call, failures>>

-----------------------------------------------------------------------------
(* The scheduler: the expiry scan and the refresh of the lists             *)

Listed_NotYetExpired(c) == status[c] # "revoked" /\ age[c] = "expiring"

\* ExpiringBefore the end of the warning window: expired rows included.
Listed(c) == status[c] # "revoked" /\ age[c] # "active"

ScanList(s) ==
    /\ "scan" \in Kinds
    /\ pc[s] = "idle" /\ MayStart
    /\ seen' = [seen EXCEPT ![s] = [c \in Certs |-> IF Listed(c) THEN status[c] ELSE Absent]]
    /\ Goto(s, "scanRow")
    /\ UNCHANGED <<dbVars, clockVars, call, result, todo, cur, found, caSeen, entries, failures>>

DeriveStatus_ForgetsHold(st, a) == IF st = "revoked" THEN st ELSE a

\* DeriveStatus keeps what people decided; the clock decides the rest.
DeriveStatus(st, a) == IF st \in {"revoked", "held"} THEN st ELSE a

\* One row of the listing: UpdateFields writes its status column alone, and
\* ends the job with an error when the row is gone.
ScanRow(s) ==
    /\ pc[s] = "scanRow"
    /\ \E c \in Certs :
          LET want == DeriveStatus(seen[s][c], age[c]) IN
          /\ seen[s][c] # Absent
          /\ IF want # seen[s][c] /\ status[c] = Absent
               THEN Stop(s, "error") /\ UNCHANGED status
               ELSE /\ status' = [status EXCEPT ![c] = IF want # seen[s][c] THEN want ELSE @]
                    /\ seen' = [seen EXCEPT ![s][c] = Absent]
                    /\ UNCHANGED <<pc, result, todo, cur, found, caSeen, entries>>
    /\ UNCHANGED <<revs, ca, clockVars, call, failures>>

\* RefreshAuthorityStatuses: the row as it was read, with the status it wants.
ScanCARead(s) ==
    /\ pc[s] = "scanRow" /\ seen[s] = Unseen
    /\ IF ca.status = CAAge(ca.cert)
         THEN Stop(s, "ok")
         ELSE /\ caSeen' = [caSeen EXCEPT ![s] = [ca EXCEPT !.status = CAAge(ca.cert)]]
              /\ Goto(s, "scanCASave")
              /\ UNCHANGED <<result, todo, cur, seen, found, entries>>
    /\ UNCHANGED <<dbVars, clockVars, call, failures>>

ScanCASave(s) ==
    /\ pc[s] = "scanCASave"
    /\ ca' = caSeen[s]
    /\ Stop(s, "ok")
    /\ UNCHANGED <<status, revs, clockVars, call, failures>>

Refreshable_OnlyActive == ~Protected /\ ca.status = "active"

\* refreshCRLs skips a CA that cannot sign unattended, and an expired one.
Refreshable == ~Protected /\ ca.status # "expired"

\* Reissuing an unchanged list is bounded: past the bound the job waits until
\* the list would change.
RefreshCRL(s) ==
    /\ "crls" \in Kinds
    /\ pc[s] = "idle" /\ MayStart
    /\ Refreshable
    /\ ca.number < MaxCRLNumber \/ ca.list # Current
    /\ Goto(s, "crlRow")
    /\ UNCHANGED <<dbVars, clockVars, call, result, memVars, failures>>

-----------------------------------------------------------------------------
(* Failures and time                                                       *)

\* The query for the hold's row fails: Revoke goes on as if there were none.
MissHold(p) == Goto(p, "insert") /\ UNCHANGED <<result, memVars>>

\* A statement returns an error, or the process dies before it: the handler
\* ends there, with what it has written in the database.  A bulk request goes
\* on with the next certificate when it is the database that failed.
Fail(p) ==
    /\ failures < MaxFailures
    /\ failures' = failures + 1
    /\ pc[p] \notin Resting
    /\ \/ Stop(p, "error")
       \/ pc[p] \in RevokeSteps \ {"next", "findHold"} /\ Refuse(p)
       \/ pc[p] = "findHold" /\ MissHold(p)
       \/ /\ pc[p] = "next" /\ Bulk(p)
          /\ \E c \in todo[p] : todo' = [todo EXCEPT ![p] = @ \ {c}]
          /\ UNCHANGED <<pc, result, cur, seen, found, caSeen, entries>>
    /\ UNCHANGED <<dbVars, clockVars, call>>

Later(a) == IF a = "active" THEN "expiring" ELSE "expired"

\* Only the jobs of the scheduler and ReleaseHold look at the clock.
CertificateAges(c) ==
    /\ "certificates" \in Clocks /\ age[c] # "expired"
    /\ age' = [age EXCEPT ![c] = Later(@)]
    /\ UNCHANGED <<dbVars, caAge, pc, call, result, memVars, failures>>

AuthorityAges ==
    /\ "authority" \in Clocks /\ caAge # "expired"
    /\ caAge' = Later(caAge)
    /\ UNCHANGED <<dbVars, age, pc, call, result, memVars, failures>>

-----------------------------------------------------------------------------
RequestStep(r) ==
    \/ RevokeRead(r) \/ RevokeFindHold(r) \/ RevokeDropHold(r) \/ RevokeInsert(r)
    \/ RevokeSave(r) \/ BulkPublish(r)
    \/ ReleaseRead(r) \/ ReleaseFind(r) \/ ReleaseDrop(r) \/ ReleaseSave(r)
    \/ UpdateRead(r) \/ UpdateSave(r) \/ DeleteCertificate(r)
    \/ CARead(r) \/ CASave(r) \/ CRLForRead(r)

CRLStep(p) == CRLRow(p) \/ CRLRevocations(p) \/ CRLSave(p)

ScanStep(s) == ScanRow(s) \/ ScanCARead(s) \/ ScanCASave(s)

Next ==
    \/ \E r \in Requests : (\E k \in Calls : Begin(r, k)) \/ RequestStep(r)
    \/ \E s \in Schedulers : ScanList(s) \/ ScanStep(s) \/ RefreshCRL(s)
    \/ \E p \in Procs : CRLStep(p) \/ Fail(p)
    \/ \E c \in Certs : CertificateAges(c)
    \/ AuthorityAges

Spec == Init /\ [][Next]_vars

\* A handler that has started runs to its end, or fails.  The scheduler's loop
\* selects between two tickers, and a ticker whose time has come is taken
\* whenever the loop is back at its select often enough: strong fairness.
Fairness ==
    /\ \A r \in Requests : WF_vars(RequestStep(r) \/ CRLStep(r))
    /\ \A s \in Schedulers :
         /\ WF_vars(ScanStep(s) \/ CRLStep(s))
         /\ SF_vars(ScanList(s))
         /\ SF_vars(RefreshCRL(s))

FairSpec == Spec /\ Fairness
-----------------------------------------------------------------------------
(* Properties                                                              *)

Permanent(c) == revs[c] # None /\ revs[c].reason # Hold

\* What OCSPRespond answers for a certificate: unknown without a row, else what
\* the revocations table says.  It never looks at the status column.
OCSPAnswer(c) ==
    CASE status[c] = Absent -> "unknown"
      [] status[c] # Absent /\ revs[c] = None -> "good"
      [] OTHER -> "revoked"

\* The request that is replacing the hold of c by another revocation, between
\* the deletion of the one row and the insertion of the other.
Escalating(c) == \E r \in Requests : pc[r] = "insert" /\ cur[r] = c /\ found[r] # None

\* What the tables say of a certificate, with the hold kept until it is replaced.
Answer == [c \in Certs |->
    CASE OCSPAnswer(c) = "unknown" -> "unknown"
      [] OCSPAnswer(c) = "revoked" -> IF Permanent(c) THEN "revoked" ELSE "held"
      [] OTHER -> IF Escalating(c) THEN "held" ELSE "good"]

\* The handlers implement the life README.md:66-69 promises for a certificate.
Life == INSTANCE CertificateLife WITH answer <- Answer
ImplementsLife == Life!Spec

\* A revocation belongs to a certificate the database still has: whatever the
\* interleaving of Revoke and DeleteCertificate, no row is left behind that
\* would keep a deleted certificate on every future list.
NoOrphanRevocation == \A c \in Certs : revs[c] # None => status[c] # Absent

\* "Only a hold can be released. A certificate revoked for key compromise stays
\* revoked" (certificate.go:754-755): ReleaseHold deletes no permanent revocation.
\* It does: it looks at the status once, and deletes whatever row it finds later.
ReleaseLiftsHoldsOnly ==
    [][\A r \in Requests, c \in Certs :
          ReleaseDrop(r) /\ Permanent(c) => revs'[c] = revs[c]]_vars

AnsweredOK(r, kind, c) == call[r].kind = kind /\ c \in call[r].certs /\ result[r] = "ok"

\* As long as nobody uses certificateHold (a release can drop what replaced a
\* hold, see ReleaseLiftsHoldsOnly), a caller who was told "revoked" can rely on
\* it: the certificate has a permanent revocation, unless someone has deleted it.
AcknowledgedRevocationStands ==
    \A r \in Requests, c \in Certs :
       AnsweredOK(r, "revoke", c) /\ call[r].reason # Hold
         => Permanent(c) \/ \E d \in Requests : AnsweredOK(d, "delete", c)

\* As long as nobody uses certificateHold, two callers are never both told that
\* they have revoked a certificate for good, however their reads of its status
\* and their inserts interleave; only the deletion of the certificate could make
\* room for a second revocation.
RevokedOnce ==
    \A r1, r2 \in Requests, c \in Certs :
       /\ AnsweredOK(r1, "revoke", c) /\ call[r1].reason # Hold
       /\ AnsweredOK(r2, "revoke", c) /\ call[r2].reason # Hold
       => r1 = r2 \/ \E d \in Requests : AnsweredOK(d, "delete", c)

\* No request is in the middle of its work, nor is a job.
Quiet == \A p \in Procs : pc[p] \in Resting

\* The status column, which the API, the scheduler and the renewals go by, and
\* the revocations table, which OCSP and the CRL go by, tell the same story.
StatusAgreesWithTable ==
    Quiet => \A c \in Certs :
       /\ status[c] = "revoked" <=> Permanent(c)
       /\ status[c] = "held" <=> revs[c] # None /\ ~Permanent(c)

\* "A revocation nobody can see is not a revocation" (certificate.go:523): when
\* nothing is running, the list of a CA that signs by itself has every
\* revocation in force, and nothing else but certificates deleted since.
ListIsComplete ==
    Quiet /\ ~Protected =>
       /\ Current \subseteq ca.list
       /\ \A e \in ca.list \ Current : status[e.cert] = Absent

\* "the monotonically increasing CRL sequence number; verifiers use it to
\* reject a replayed older list" (crl.go:67): another list has a higher number.
ListNumbersIncrease ==
    [][/\ ca'.number >= ca.number
       /\ ca'.list # ca.list => ca'.number > ca.number]_vars

\* Nothing is ever published that nobody asked for: an entry of the list, and a
\* row of the table, is what a request to revoke that certificate said.
RevocationsWereRequested ==
    \A c \in Certs, x \in Reasons \cup {Hold} :
       \/ [cert |-> c, reason |-> x] \in ca.list
       \/ revs[c] # None /\ revs[c].reason = x
       => \E r \in Requests :
            call[r].kind \in RevokeKinds /\ c \in call[r].certs /\ call[r].reason = x

\* "A passphrase-protected CA cannot be signed unattended" (scheduler.go:406):
\* whatever handlers race on its row, it has a list, and a process is about to
\* sign one, only if a request brought the passphrase: never by the work of the
\* scheduler, of CRLFor for an anonymous client, or of a caller without it.
ProtectedListNeedsPassphrase ==
    Protected => /\ ca.number > 0 => \E r \in Requests : call[r].pass
                 /\ \A p \in Procs : pc[p] = "crlSave" => p \in Requests /\ call[p].pass

\* "A revoked certificate stays revoked regardless of its dates" (models.go:221-222):
\* the status column never leaves "revoked", unless the row is deleted.
RevokedStaysRevoked ==
    [][\A c \in Certs : status[c] = "revoked" => status'[c] \in {"revoked", Absent}]_vars

\* Revocations reach the clients of an unattended CA in the end, whatever
\* requests raced, failed or deferred the list: the scheduler publishes them.
EventuallyPublished == <>[](ca.list = Current \/ Protected \/ ca.status = "expired")

\* The scheduler settles the status column on what the clock says, for every
\* certificate nobody has revoked, held or deleted.
StatusFollowsClock ==
    \A c \in Certs : <>[](status[c] \in {Absent, "revoked", "held", age[c]})
=============================================================================
