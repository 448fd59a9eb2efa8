------------------------------ MODULE Renewal ------------------------------
(***************************************************************************)
(* Renewing certificates, and pushing the result to the servers that use   *)
(* it (service/certificate.go, service/deployment.go, and two jobs of      *)
(* schedule/scheduler.go).                                                 *)
(*                                                                         *)
(* A renewal is a new row, linked to the old one, which then stops         *)
(* renewing itself.  A target is pushed the certificate that expires last  *)
(* of those it selects, and its row remembers the serial it was pushed, so *)
(* that the next pass can skip it.  All of this is done one statement at a *)
(* time, over rows that other requests write.                              *)
(*                                                                         *)
(* The certificates here are those of one name, which every target         *)
(* selects; their CA signs without a passphrase and outlives them.         *)
(***************************************************************************)
EXTENDS Naturals, FiniteSets

CONSTANTS
    Requests,       \* the API calls, each made at most once
    Schedulers,     \* the scheduler of each replica
    Targets,        \* the deployment targets, and those that may be added
    FirstTargets,   \* the targets there are at the start
    Places,         \* where a target's settings may point
    FirstPlaces,    \* where those of each target point when it is created
    Kinds,          \* the calls this instance makes
    Exclusive,      \* those that run alone
    FirstValidity,  \* for how many days the first certificate is valid
    FirstKey,       \* FALSE: it was signed from a CSR, Certio has no key
    Validities,     \* what a renewal may ask instead of the validity it had
    Windows,        \* what an update may set renew_before_days to
    PageLimit,      \* how many certificates a listing returns at most
    MaxCerts,       \* bound: how many certificates there ever are
    MaxNow,         \* bound: how many days pass
    MaxFailures,    \* bound: how many statements fail or processes die
    MaxPushErrors,  \* bound: how many pushes fail
    None            \* no certificate, no target

CertKinds   == {"update", "hold", "release", "revoke", "delete"}
TargetKinds == {"retarget", "addTarget", "dropTarget", "test"}

Procs == Requests \cup Schedulers
Certs == 1 .. MaxCerts

ASSUME RenewalKindsAssumption ==
    /\ Kinds \subseteq {"renew", "bulkRenew", "redeploy"} \cup CertKinds \cup TargetKinds
    /\ Exclusive \subseteq Kinds
ASSUME RenewalProcsAssumption == Requests \cap Schedulers = {}
ASSUME RenewalTargetsAssumption == FirstTargets \subseteq Targets /\ FirstPlaces \in [Targets -> Places]
ASSUME RenewalDaysAssumption ==
    /\ FirstValidity \in Nat \ {0} /\ Validities \subseteq Nat \ {0}
    /\ Windows \subseteq Nat \ {0} /\ FirstKey \in BOOLEAN
ASSUME RenewalBoundAssumption ==
    /\ MaxCerts \in Nat \ {0} /\ PageLimit \in Nat \ {0}
    /\ MaxNow \in Nat /\ MaxFailures \in Nat /\ MaxPushErrors \in Nat
ASSUME RenewalNoneAssumption == None \notin Certs \cup Targets \cup Places

-----------------------------------------------------------------------------
(* Rows                                                                    *)

\* The status column, as far as this module looks at it: "active" stands for
\* "expiring" and "expired" too.  A row that does not exist has no status.
Statuses == {"none", "active", "held", "revoked", "deleted"}

CertRows == [status : Statuses, auto : BOOLEAN, window : Nat, validity : Nat,
             notAfter : Nat, key : BOOLEAN, from : Certs \cup {None}]

TargetRows == [kept : BOOLEAN, enabled : BOOLEAN, place : Places,
               last : Certs \cup {None}, error : BOOLEAN]

NoRow     == [status |-> "none", auto |-> FALSE, window |-> 0, validity |-> 0,
              notAfter |-> 0, key |-> FALSE, from |-> None]

NewTarget(t) == [kept |-> TRUE, enabled |-> TRUE, place |-> FirstPlaces[t],
                 last |-> None, error |-> FALSE]
NoTarget(t)  == [NewTarget(t) EXCEPT !.kept = FALSE]

\* "A renewal window at least as long as the certificate's own lifetime would
\* make it due the moment it is issued": half the lifetime at most.
Window(auto, days, validity) ==
    IF auto /\ days >= validity THEN (IF validity < 2 THEN 1 ELSE validity \div 2)
                                ELSE days

\* renew_before_days is 30 unless the caller says otherwise.
FirstRow == [status |-> "active", auto |-> TRUE, window |-> Window(TRUE, 30, FirstValidity),
             validity |-> FirstValidity, notAfter |-> FirstValidity,
             key |-> FirstKey, from |-> None]

\* A call of the API, or a job of the scheduler, with its arguments: the flag is
\* rekey, auto_renew, force or enabled, the days are those of a renewal
\* (0: as many as before) or of the renewal window.
One    == {{c} : c \in Certs}
Rekeys == IF FirstKey THEN {FALSE} ELSE BOOLEAN   \* its client has no use for a new key

CertCalls ==
    LET Made(kinds, certs, flags, days) ==
          [kind : kinds, certs : certs, flag : flags, days : days, target : {None}, place : {None}]
    IN  Made({"renew"}, One, Rekeys, Validities \cup {0})
          \cup Made({"bulkRenew"}, (SUBSET Certs) \ {{}}, Rekeys, {0})
          \cup Made({"redeploy"}, One, BOOLEAN, {0})
          \cup Made({"update"}, One, BOOLEAN, Windows)
          \cup Made(CertKinds \ {"update"}, One, {FALSE}, {0})

TargetCalls ==
    LET Made(kinds, flags, places) ==
          [kind : kinds, certs : {{}}, flag : flags, days : {0}, target : Targets, place : places]
    IN  Made({"retarget"}, BOOLEAN, Places) \cup Made(TargetKinds \ {"retarget"}, {FALSE}, {None})

Calls == {k \in CertCalls \cup TargetCalls : k.kind \in Kinds}

Job(kind) == [kind |-> kind, certs |-> {}, flag |-> FALSE, days |-> 0, target |-> None, place |-> None]
Blank     == Job("none")
Jobs      == {Job("autoRenew"), Job("deployPending")}

VARIABLES
    rows,       \* the certificates table
    targets,    \* the deployment_targets table
    served,     \* the certificate each place has
    delivered,  \* history: which places have ever had which certificate
    carried,    \* history: the serial a target's row kept when it was moved
    now,        \* the day
    pc,         \* the next statement of each process
    call,       \* what it was asked, or the job it runs
    due,        \* the certificates it still has to renew
    cur,        \* the certificate it renews or edits
    seen,       \* that certificate's row as it was read
    subject,    \* the certificate it deploys
    todo,       \* the targets it still has to push it to
    tcur,       \* the target it is pushing to, or editing
    tseen,      \* the target rows as they were read
    outcome,    \* whether the push succeeded
    failures,   \* how many failures there have been
    pushErrors  \* how many pushes have failed

world  == <<rows, targets, served, delivered, carried, now>>
memory == <<due, cur, seen, subject, todo, tcur, tseen, outcome>>
counts == <<failures, pushErrors>>
vars   == <<world, pc, call, memory, counts>>

RenewSteps  == {"renewNext", "insert", "switchOff", "deployGet", "deployTargets"}
PushSteps   == {"push", "deliver", "record"}
JobSteps    == {"jobTargets", "jobList"}
EditSteps   == {"updateRead", "updateSave", "setStatus", "targetRead", "targetSave",
                "targetInsert", "targetDelete", "testRead", "testList"}
Resting     == {"idle", "done"}

Unread == [t \in Targets |-> NoTarget(t)]

TablesOK ==
    /\ rows \in [Certs -> CertRows]
    /\ targets \in [Targets -> TargetRows]
    /\ served \in [Places -> Certs \cup {None}]
    /\ delivered \subseteq Places \X Certs
    /\ carried \subseteq Targets \X Places \X Certs
    /\ now \in Nat

ControlOK ==
    /\ pc \in [Procs -> Resting \cup RenewSteps \cup PushSteps \cup JobSteps \cup EditSteps]
    /\ call \in [Procs -> Calls \cup Jobs \cup {Blank}]

MemoryOK ==
    /\ due \in [Procs -> SUBSET Certs]
    /\ cur \in [Procs -> Certs \cup {None}]
    /\ seen \in [Procs -> CertRows]
    /\ subject \in [Procs -> Certs \cup {None}]
    /\ todo \in [Procs -> SUBSET Targets]
    /\ tcur \in [Procs -> Targets \cup {None}]
    /\ tseen \in [Procs -> [Targets -> TargetRows]]
    /\ outcome \in [Procs -> BOOLEAN]

TypeOK == TablesOK /\ ControlOK /\ MemoryOK /\ failures \in Nat /\ pushErrors \in Nat

Init ==
    /\ rows = [c \in Certs |-> IF c = 1 THEN FirstRow ELSE NoRow]
    /\ targets = [t \in Targets |-> IF t \in FirstTargets THEN NewTarget(t) ELSE NoTarget(t)]
    /\ served = [l \in Places |-> None]
    /\ delivered = {}
    /\ carried = {}
    /\ now = 0
    /\ pc = [p \in Procs |-> "idle"]
    /\ call = [p \in Procs |-> Blank]
    /\ due = [p \in Procs |-> {}]
    /\ cur = [p \in Procs |-> None]
    /\ seen = [p \in Procs |-> NoRow]
    /\ subject = [p \in Procs |-> None]
    /\ todo = [p \in Procs |-> {}]
    /\ tcur = [p \in Procs |-> None]
    /\ tseen = [p \in Procs |-> Unread]
    /\ outcome = [p \in Procs |-> FALSE]
    /\ failures = 0
    /\ pushErrors = 0

-----------------------------------------------------------------------------
(* Steps every handler shares                                              *)

Exists(c)    == rows[c].status \notin {"none", "deleted"}
Live(c)      == rows[c].status \in {"active", "held"}
Enabled      == {t \in Targets : targets[t].kept /\ targets[t].enabled}
Goto(p, label) == pc' = [pc EXCEPT ![p] = label]

\* A handler returns, or its process dies: what it had read is gone.
Stop(p) ==
    /\ Goto(p, IF p \in Schedulers THEN "idle" ELSE "done")
    /\ call' = IF p \in Schedulers THEN [call EXCEPT ![p] = Blank] ELSE call
    /\ due' = [due EXCEPT ![p] = {}]
    /\ cur' = [cur EXCEPT ![p] = None]
    /\ seen' = [seen EXCEPT ![p] = NoRow]
    /\ subject' = [subject EXCEPT ![p] = None]
    /\ todo' = [todo EXCEPT ![p] = {}]
    /\ tcur' = [tcur EXCEPT ![p] = None]
    /\ tseen' = [tseen EXCEPT ![p] = Unread]
    /\ outcome' = [outcome EXCEPT ![p] = FALSE]

\* The calls that run alone are those nobody makes while something else runs.
MayStart(kind) ==
    \A q \in Procs : pc[q] \in Resting \/ (kind \notin Exclusive /\ call[q].kind \notin Exclusive)

FirstStep == [renew |-> "renewNext", bulkRenew |-> "renewNext", redeploy |-> "deployGet", update |-> "updateRead",
              hold |-> "setStatus", release |-> "setStatus", revoke |-> "setStatus",
              delete |-> "setStatus", retarget |-> "targetRead", addTarget |-> "targetInsert",
              dropTarget |-> "targetDelete", test |-> "testRead"]

\* Callers name certificates that were issued, whatever became of them; a
\* target that is added has an identity of its own.
Sendable(k) ==
    /\ \A c \in k.certs : rows[c].status # "none"
    /\ k.kind = "addTarget" => k.target \notin FirstTargets /\ \A q \in Requests : call[q] # k

Begin(r, k) ==
    /\ pc[r] = "idle" /\ MayStart(k.kind) /\ Sendable(k)
    /\ call' = [call EXCEPT ![r] = k]
    /\ Goto(r, FirstStep[k.kind])
    /\ due' = [due EXCEPT ![r] = IF k.kind \in {"renew", "bulkRenew"} THEN k.certs ELSE {}]
    /\ \E c \in (IF k.kind \in CertKinds THEN k.certs ELSE {None}) : cur' = [cur EXCEPT ![r] = c]
    /\ \E c \in (IF k.kind = "redeploy" THEN k.certs ELSE {None}) : subject' = [subject EXCEPT ![r] = c]
    /\ UNCHANGED <<world, seen, todo, tcur, tseen, outcome, counts>>

-----------------------------------------------------------------------------
(* Renew, for one certificate after the other                              *)

\* A certificate is back-dated by five minutes, so the inequality of whole days
\* is not strict.  The status is only asked not to be revoked.
Due(c) == rows[c].auto /\ Live(c) /\ now + rows[c].window >= rows[c].notAfter

\* RunOnce: autoRenew first, then deployPending.
PassStart(s) ==
    /\ pc[s] = "idle" /\ MayStart("autoRenew")
    /\ call' = [call EXCEPT ![s] = Job("autoRenew")]
    /\ due' = [due EXCEPT ![s] = {c \in Certs : Due(c)}]
    /\ Goto(s, "renewNext")
    /\ UNCHANGED <<world, cur, seen, subject, todo, tcur, tseen, outcome, counts>>

Renewable_OnlyActive(p, c) ==
    rows[c].status = "active" /\ (rows[c].key \/ call[p].flag)

\* "A BYO-CSR certificate has none stored, so it can only be renewed by rekeying".
Renewable(p, c) == Live(c) /\ (rows[c].key \/ call[p].flag)

RenewRead(p) ==
    /\ pc[p] = "renewNext"
    /\ \E c \in due[p] :
          /\ due' = [due EXCEPT ![p] = @ \ {c}]
          /\ IF Renewable(p, c)
               THEN /\ cur' = [cur EXCEPT ![p] = c]
                    /\ seen' = [seen EXCEPT ![p] = rows[c]]
                    /\ Goto(p, "insert")
               ELSE UNCHANGED <<pc, cur, seen>>
    /\ UNCHANGED <<world, call, subject, todo, tcur, tseen, outcome, counts>>

\* All of them are done: the scheduler goes on with its next job.
RenewDone(p) ==
    /\ pc[p] = "renewNext" /\ due[p] = {}
    /\ IF p \in Schedulers
         THEN /\ Goto(p, "jobTargets")
              /\ call' = [call EXCEPT ![p] = Job("deployPending")]
              /\ UNCHANGED memory
         ELSE Stop(p)
    /\ UNCHANGED <<world, counts>>

Fresh == {c \in Certs : rows[c].status = "none" /\ \A d \in Certs : d < c => rows[d].status # "none"}

Renewed_WithoutAuto(p) ==
    LET old == seen[p]
        v   == IF call[p].days > 0 THEN call[p].days ELSE old.validity
    IN  [status |-> "active", auto |-> FALSE, window |-> Window(old.auto, old.window, v),
         validity |-> v, notAfter |-> now + v, key |-> TRUE, from |-> cur[p]]

\* The new row: what the old one was when it was read, valid from today.
Renewed(p) ==
    LET old == seen[p]
        v   == IF call[p].days > 0 THEN call[p].days ELSE old.validity
    IN  [status |-> "active", auto |-> old.auto, window |-> Window(old.auto, old.window, v),
         validity |-> v, notAfter |-> now + v, key |-> TRUE, from |-> cur[p]]

RenewInsert(p) ==
    /\ pc[p] = "insert"
    /\ \E c \in Fresh :
          /\ rows' = [rows EXCEPT ![c] = Renewed(p)]
          /\ subject' = [subject EXCEPT ![p] = c]
    /\ seen' = [seen EXCEPT ![p] = NoRow]
    /\ IF seen[p].auto THEN Goto(p, "switchOff") /\ UNCHANGED cur
                       ELSE Goto(p, "deployGet") /\ cur' = [cur EXCEPT ![p] = None]
    /\ UNCHANGED <<targets, served, delivered, carried, now, call, due, todo, tcur, tseen, outcome, counts>>

\* "it must stop auto-renewing": one UPDATE of one column, and nothing else of
\* the row is written back.
SwitchOff(p) ==
    /\ pc[p] = "switchOff"
    /\ rows' = [rows EXCEPT ![cur[p]].auto = IF Exists(cur[p]) THEN FALSE ELSE @]
    /\ cur' = [cur EXCEPT ![p] = None]
    /\ Goto(p, "deployGet")
    /\ UNCHANGED <<targets, served, delivered, carried, now, call, due, seen, subject, todo, tcur, tseen,
                   outcome, counts>>

-----------------------------------------------------------------------------
(* DeployCertificate, and runDeployment for one target after the other     *)

\* The deployment is over, or failed as a whole: a renewal goes on with the
\* next certificate.
Deployed(p) ==
    IF call[p].kind \in {"renew", "bulkRenew", "autoRenew"}
      THEN /\ Goto(p, "renewNext")
           /\ subject' = [subject EXCEPT ![p] = None]
           /\ tseen' = [tseen EXCEPT ![p] = Unread]
           /\ UNCHANGED <<call, due, cur, seen, todo, tcur, outcome>>
      ELSE Stop(p)

DeployGet(p) ==
    /\ pc[p] = "deployGet"
    /\ IF Exists(subject[p]) THEN Goto(p, "deployTargets") /\ UNCHANGED <<call, memory>>
                             ELSE Deployed(p)
    /\ UNCHANGED <<world, counts>>

\* Enabled returns the rows themselves: what is written back at the end.
DeployTargets(p) ==
    /\ pc[p] = "deployTargets"
    /\ todo' = [todo EXCEPT ![p] = Enabled]
    /\ tseen' = [tseen EXCEPT ![p] = [t \in Targets |-> IF t \in Enabled THEN targets[t] ELSE NoTarget(t)]]
    /\ Goto(p, "push")
    /\ UNCHANGED <<world, call, due, cur, seen, subject, tcur, outcome, counts>>

UpToDate_AnySerial(p, t) == tseen[p][t].last # None /\ ~tseen[p][t].error

\* "A target that already holds this serial has nothing to do."
UpToDate(p, t) == tseen[p][t].last = subject[p] /\ ~tseen[p][t].error

Forced(p) == call[p].kind = "test" \/ (call[p].kind = "redeploy" /\ call[p].flag)

\* deployBundle loads the certificate again.  Without a key the row it is
\* given is nil, and reading its common name panics: nothing recovers it in the
\* scheduler, whose process starts again and meets it again.
PushStart(p) ==
    /\ pc[p] = "push"
    /\ \E t \in todo[p] :
          IF ~Forced(p) /\ UpToDate(p, t)
            THEN /\ todo' = [todo EXCEPT ![p] = @ \ {t}]
                 /\ UNCHANGED <<pc, call, due, cur, seen, subject, tcur, tseen, outcome>>
            ELSE IF Exists(subject[p]) /\ ~rows[subject[p]].key
            THEN Stop(p)
            ELSE /\ todo' = [todo EXCEPT ![p] = @ \ {t}]
                 /\ tcur' = [tcur EXCEPT ![p] = t]
                 /\ Goto(p, IF Exists(subject[p]) THEN "deliver" ELSE "record")
                 /\ UNCHANGED <<call, due, cur, seen, subject, tseen, outcome>>
    /\ UNCHANGED <<world, counts>>

PushDone(p) ==
    /\ pc[p] = "push" /\ todo[p] = {}
    /\ Deployed(p)
    /\ UNCHANGED <<world, counts>>

\* The push takes up to two minutes.  One that fails may have written the
\* certificate all the same: the service did not reload, the answer was lost.
Deliver(p) ==
    /\ pc[p] = "deliver"
    /\ \E ok, written \in BOOLEAN :
          /\ ok => written
          /\ ok \/ pushErrors < MaxPushErrors
          /\ pushErrors' = IF ok THEN pushErrors ELSE pushErrors + 1
          /\ outcome' = [outcome EXCEPT ![p] = ok]
          /\ LET l == tseen[p][tcur[p]].place IN
               /\ served' = IF written THEN [served EXCEPT ![l] = subject[p]] ELSE served
               /\ delivered' = IF written THEN delivered \cup {<<l, subject[p]>>} ELSE delivered
    /\ Goto(p, "record")
    /\ UNCHANGED <<rows, targets, carried, now, call, due, cur, seen, subject, todo, tcur, tseen, failures>>

Recorded_Always(p) ==
    [tseen[p][tcur[p]] EXCEPT !.last = subject[p], !.error = FALSE]

\* "Only a success records the serial; otherwise a failed push would mark the
\* target as up to date and never be retried."
Recorded(p) ==
    [tseen[p][tcur[p]] EXCEPT !.last = IF outcome[p] THEN subject[p] ELSE @, !.error = ~outcome[p]]

\* recordDeployment saves the whole row, and inserts it again if it is gone.
Record(p) ==
    /\ pc[p] = "record"
    /\ targets' = [targets EXCEPT ![tcur[p]] = Recorded(p)]
    /\ tcur' = [tcur EXCEPT ![p] = None]
    /\ outcome' = [outcome EXCEPT ![p] = FALSE]
    /\ Goto(p, "push")
    /\ UNCHANGED <<rows, served, delivered, carried, now, call, due, cur, seen, subject, todo, tseen, counts>>

-----------------------------------------------------------------------------
(* DeployPending and TestDeploymentTarget                                  *)

\* Days are coarser than the dates of a certificate: of two that are as long
\* valid and end on the same day, the one that was issued later ends later.
Outlives(c, d) ==
    \/ rows[c].notAfter > rows[d].notAfter
    \/ rows[c].notAfter = rows[d].notAfter /\ rows[c].validity = rows[d].validity /\ c > d

ByExpiry == {e \in Certs \X Certs : Outlives(e[2], e[1])}
ByAge    == {e \in Certs \X Certs : e[1] < e[2]}

\* The first page of the certificates that are not revoked, in such an order.
Page(S, order) ==
    /\ \A c \in S : Live(c) /\ \A d \in Certs \ S : Live(d) => <<d, c>> \notin order
    /\ Cardinality(S) <= PageLimit
    /\ Cardinality(S) < PageLimit => \A c \in Certs : Live(c) => c \in S

NewestMatch_First(S, b) == \A c \in S : ~Outlives(b, c)

\* "of everything the selector matches, the one that expires last".
NewestMatch(S, b) == \A c \in S : ~Outlives(c, b)

JobTargets(s) ==
    /\ pc[s] = "jobTargets"
    /\ IF Enabled = {}
         THEN Stop(s)
         ELSE /\ todo' = [todo EXCEPT ![s] = Enabled]
              /\ tseen' = [tseen EXCEPT ![s] =
                             [t \in Targets |-> IF t \in Enabled THEN targets[t] ELSE NoTarget(t)]]
              /\ Goto(s, "jobList")
              /\ UNCHANGED <<call, due, cur, seen, subject, tcur, outcome>>
    /\ UNCHANGED <<world, counts>>

ChooseMatch(p, S) ==
    IF S = {} THEN Stop(p)
              ELSE /\ \E b \in S : NewestMatch(S, b) /\ subject' = [subject EXCEPT ![p] = b]
                   /\ Goto(p, "push")
                   /\ UNCHANGED <<call, due, cur, seen, todo, tcur, tseen, outcome>>

JobList(s) ==
    /\ pc[s] = "jobList"
    /\ \E S \in SUBSET Certs : Page(S, ByExpiry) /\ ChooseMatch(s, S)
    /\ UNCHANGED <<world, counts>>

TestRead(r) ==
    /\ pc[r] = "testRead"
    /\ LET t == call[r].target IN
         IF targets[t].kept
           THEN /\ todo' = [todo EXCEPT ![r] = {t}]
                /\ tseen' = [tseen EXCEPT ![r] = [Unread EXCEPT ![t] = targets[t]]]
                /\ Goto(r, "testList")
                /\ UNCHANGED <<call, due, cur, seen, subject, tcur, outcome>>
           ELSE Stop(r)
    /\ UNCHANGED <<world, counts>>

\* The list of this one has no SortBy: certificateOrder takes created_at.
TestList(r) ==
    /\ pc[r] = "testList"
    /\ \E S \in SUBSET Certs : Page(S, ByAge) /\ ChooseMatch(r, S)
    /\ UNCHANGED <<world, counts>>

-----------------------------------------------------------------------------
(* Edits of a certificate and of a target                                  *)

UpdateRead(r) ==
    /\ pc[r] = "updateRead"
    /\ IF Exists(cur[r]) THEN /\ seen' = [seen EXCEPT ![r] = rows[cur[r]]]
                              /\ Goto(r, "updateSave")
                              /\ UNCHANGED <<call, due, cur, subject, todo, tcur, tseen, outcome>>
                         ELSE Stop(r)
    /\ UNCHANGED <<world, counts>>

\* UpdateCertificate writes the whole row back, as it was read but for this.
UpdateSave(r) ==
    /\ pc[r] = "updateSave"
    /\ rows' = [rows EXCEPT ![cur[r]] = [seen[r] EXCEPT !.auto = call[r].flag, !.window = call[r].days]]
    /\ Stop(r)
    /\ UNCHANGED <<targets, served, delivered, carried, now, counts>>

After_OnHold(kind, status) ==
    CASE kind = "hold"    /\ status = "active"            -> "certificateHold"
      [] kind = "release" /\ status = "held"              -> "active"
      [] kind = "revoke"  /\ status \in {"active", "held"} -> "revoked"
      [] kind = "delete"                                  -> "deleted"
      [] OTHER                                            -> status

After(kind, status) ==
    CASE kind = "hold"    /\ status = "active"            -> "held"
      [] kind = "release" /\ status = "held"              -> "active"
      [] kind = "revoke"  /\ status \in {"active", "held"} -> "revoked"
      [] kind = "delete"                                  -> "deleted"
      [] OTHER                                            -> status

\* Revoke, ReleaseHold and DeleteCertificate, whose statements are the subject
\* of Revocation: here they are one step, of the status column.
SetStatus(r) ==
    /\ pc[r] = "setStatus"
    /\ rows' = [rows EXCEPT ![cur[r]].status = After(call[r].kind, @)]
    /\ Stop(r)
    /\ UNCHANGED <<targets, served, delivered, carried, now, counts>>

TargetRead(r) ==
    /\ pc[r] = "targetRead"
    /\ LET t == call[r].target IN
         IF targets[t].kept
           THEN /\ tseen' = [tseen EXCEPT ![r] = [Unread EXCEPT ![t] = targets[t]]]
                /\ Goto(r, "targetSave")
                /\ UNCHANGED <<call, due, cur, seen, subject, todo, tcur, outcome>>
           ELSE Stop(r)
    /\ UNCHANGED <<world, counts>>

\* UpdateDeploymentTarget: the settings change, what was recorded stays, the
\* serial that some other place was given included.
TargetSave(r) ==
    /\ pc[r] = "targetSave"
    /\ LET t == call[r].target
           last == tseen[r][t].last IN
         /\ targets' = [targets EXCEPT ![t] =
                          [tseen[r][t] EXCEPT !.enabled = call[r].flag, !.place = call[r].place]]
         /\ carried' = IF last # None /\ tseen[r][t].place # call[r].place
                         THEN carried \cup {<<t, call[r].place, last>>} ELSE carried
    /\ Stop(r)
    /\ UNCHANGED <<rows, served, delivered, now, counts>>

TargetInsert(r) ==
    /\ pc[r] = "targetInsert"
    /\ targets' = [targets EXCEPT ![call[r].target] = NewTarget(call[r].target)]
    /\ Stop(r)
    /\ UNCHANGED <<rows, served, delivered, carried, now, counts>>

TargetDelete(r) ==
    /\ pc[r] = "targetDelete"
    /\ targets' = [targets EXCEPT ![call[r].target].kept = FALSE]
    /\ Stop(r)
    /\ UNCHANGED <<rows, served, delivered, carried, now, counts>>

-----------------------------------------------------------------------------
(* Failures and time                                                       *)

\* Where a handler goes on when a statement of it fails.
StatementFails(p) ==
    \/ /\ pc[p] \in {"insert", "renewNext"}
       /\ \E D \in {due[p]} \cup {due[p] \ {c} : c \in due[p]} :
            /\ pc[p] = "insert" <=> D = due[p]
            /\ due' = [due EXCEPT ![p] = D]
       /\ cur' = [cur EXCEPT ![p] = None]
       /\ seen' = [seen EXCEPT ![p] = NoRow]
       /\ Goto(p, "renewNext")
       /\ UNCHANGED <<call, subject, todo, tcur, tseen, outcome>>
    \/ /\ pc[p] = "switchOff"
       /\ cur' = [cur EXCEPT ![p] = None]
       /\ Goto(p, "deployGet")
       /\ UNCHANGED <<call, due, seen, subject, todo, tcur, tseen, outcome>>
    \/ pc[p] \in {"deployGet", "deployTargets"} /\ Deployed(p)
    \/ /\ pc[p] = "record"
       /\ tcur' = [tcur EXCEPT ![p] = None]
       /\ outcome' = [outcome EXCEPT ![p] = FALSE]
       /\ Goto(p, "push")
       /\ UNCHANGED <<call, due, cur, seen, subject, todo, tseen>>

\* A statement returns an error, or the process dies before it.
Fail(p) ==
    /\ failures < MaxFailures
    /\ failures' = failures + 1
    /\ pc[p] \notin Resting
    /\ Stop(p) \/ StatementFails(p)
    /\ UNCHANGED <<world, pushErrors>>

Tick ==
    /\ now < MaxNow
    /\ now' = now + 1
    /\ UNCHANGED <<rows, targets, served, delivered, carried, pc, call, memory, counts>>

-----------------------------------------------------------------------------
RenewStep(p) ==
    RenewRead(p) \/ RenewDone(p) \/ RenewInsert(p) \/ SwitchOff(p) \/ DeployGet(p) \/ DeployTargets(p)

PushStep(p) == PushStart(p) \/ PushDone(p) \/ Deliver(p) \/ Record(p)

JobStep(s) == JobTargets(s) \/ JobList(s)

EditStep(r) ==
    \/ UpdateRead(r) \/ UpdateSave(r) \/ SetStatus(r)
    \/ TargetRead(r) \/ TargetSave(r) \/ TargetInsert(r) \/ TargetDelete(r)
    \/ TestRead(r) \/ TestList(r)

Next ==
    \/ \E r \in Requests : (\E k \in Calls : Begin(r, k)) \/ EditStep(r)
    \/ \E s \in Schedulers : PassStart(s) \/ JobStep(s)
    \/ \E p \in Procs : RenewStep(p) \/ PushStep(p) \/ Fail(p)
    \/ Tick

Spec == Init /\ [][Next]_vars

\* A handler that has started runs to its end, or fails; the scheduler's ticker
\* starts a pass again and again.
Fairness ==
    /\ \A r \in Requests : WF_vars(RenewStep(r) \/ PushStep(r) \/ EditStep(r))
    /\ \A s \in Schedulers :
         WF_vars(PassStart(s) \/ RenewStep(s) \/ PushStep(s) \/ JobStep(s))

FairSpec == Spec /\ Fairness

-----------------------------------------------------------------------------
(* Properties                                                              *)

\* Somebody has ended the renewals: revoked or deleted a certificate, or
\* switched its renewal off.
Ended ==
    \E r \in Requests :
       \/ call[r].kind \in {"revoke", "delete"}
       \/ call[r].kind = "update" /\ ~call[r].flag

\* Unattended renewal never stops by itself: whatever renewals, edits and
\* failures meet on the rows, some certificate still renews itself.
RenewalSurvives == Ended \/ \E c \in Certs : Live(c) /\ rows[c].auto

\* The target was moved, and its row still has the serial of the place it left.
Carried(t) == <<t, targets[t].place, targets[t].last>> \in carried

\* "a failed push would mark the target as up to date and never be retried"
\* (deployment.go:277-278): the serial on a target's row was put where this target
\* points, by a push that wrote it there, whoever else has saved the row since.
\* The one way around that is to edit where the target points.
RecordedWasDelivered ==
    \A t \in Targets : targets[t].last # None =>
       <<targets[t].place, targets[t].last>> \in delivered \/ Carried(t)

\* In the end no certificate is left whose renewal window has opened: the
\* scheduler renews them all, and does not renew what it has just renewed.
EventuallyRenewed == <>[](\A c \in Certs : Due(c) => ~rows[c].key)

\* "the servers are serving it" (deployment.go:293): in the end the place of every
\* target has the certificate that expires last.  A target that was moved, and
\* keeps the serial of its old place, is skipped as up to date until the next renewal.
Current(t) == LET b == served[targets[t].place] IN
    b # None /\ Live(b) /\ \A c \in Certs : Live(c) => ~Outlives(c, b)

EventuallyServed ==
    <>[](\A t \in Enabled : (\E c \in Certs : Live(c)) => Current(t) \/ Carried(t))

\* "DeployPending pushes every certificate whose current serial has not reached
\* its targets yet" (deployment.go:291-292), moved targets included: it does not.
MovedAreServed == <>[](\A t \in Enabled : (\E c \in Certs : Live(c)) => Current(t))

\* "After a renewal both the old and the new certificate match, and the new one
\* is the point" (deployment.go:331-332): the scheduler never replaces a
\* certificate on a server by the one that it renewed.
NeverBack ==
    [][\A s \in Schedulers, l \in Places :
          Deliver(s) /\ served'[l] # served[l] /\ served[l] # None /\ rows[served[l]].from = served'[l]
            => ~Live(served[l])]_vars
=============================================================================
