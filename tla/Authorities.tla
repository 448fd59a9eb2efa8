---------------------------- MODULE Authorities ----------------------------
(***************************************************************************)
(* The tree of certificate authorities and the certificates below it       *)
(* (service/authority.go, service/certificate.go, pki/ca.go, pki/sign.go,  *)
(* pki/constraints.go, store/repo_pki.go and their handlers and commands): *)
(* creating, importing, renewing and deleting an authority, issuing and    *)
(* renewing certificates, and handing out their private keys.              *)
(*                                                                         *)
(* One action is one statement of the database with everything the code    *)
(* computes between it and the next one.  A row is known by the request    *)
(* that inserts it, and so are a serial number, a fingerprint and a key    *)
(* pair.  Revocation and automatic renewal have modules of their own.      *)
(***************************************************************************)
EXTENDS Integers, FiniteSets

CONSTANTS
    Requests,          \* the API calls and commands, each made at most once
    FirstAuthorities,  \* the authorities table at the start
    FirstCertificates, \* the certificates table at the start
    Foreign,           \* CA certificates that may be imported, by fingerprint
    Names,             \* what a certificate may be issued for
    Unchecked,         \* the URIs among them, which PermitsSANs passes over
    NameSets,          \* what one certificate may be asked for
    Limits,            \* the name constraints a new CA may be given
    Lives,             \* the validities that may be asked for
    Policy,            \* Security.KeyDownloadPolicy
    Ops,               \* the calls this instance makes
    MaxNow,            \* bound: how far the clock goes
    None

AuthorityIds   == DOMAIN FirstAuthorities \cup Requests
CertificateIds == DOMAIN FirstCertificates \cup Requests
Serials        == AuthorityIds \cup DOMAIN Foreign

\* A CA certificate: by whose certificate it was signed (None of a root, and
\* of one signed elsewhere), and the limits in it.  No constraint: all Names.
CACerts ==
    {cert \in [serial : Serials, signer : Serials \cup {None}, from : Nat, until : Nat,
               permits : SUBSET Names, leafOnly : BOOLEAN] : cert.from <= cert.until}

\* permits and leafOnly: the columns that repeat the limits.  An intermediate
\* that was imported may have no parent here.
AuthorityRows ==
    {row \in [kept : {TRUE}, type : {"root", "intermediate"}, parent : AuthorityIds \cup {None},
              cert : CACerts, permits : SUBSET Names, leafOnly : BOOLEAN] :
        row.type = "root" => row.parent = None}

\* checked: the names passed checkNameConstraints.
CertificateRows ==
    {row \in [kept : {TRUE}, authority : AuthorityIds, signer : Serials, from : Nat, until : Nat,
              names : SUBSET Names, checked : BOOLEAN, key : CertificateIds \cup {None},
              downloads : Nat] : row.from <= row.until}

NoRow == [kept |-> FALSE]

ForeignCerts == [issuer : AuthorityIds \cup {None}, selfSigned : BOOLEAN, until : Nat,
                 permits : SUBSET Names, leafOnly : BOOLEAN]
ForeignCert(f) == [serial |-> f, signer |-> None, from |-> 0, until |-> Foreign[f].until,
                   permits |-> Foreign[f].permits, leafOnly |-> Foreign[f].leafOnly]

ASSUME AuthoritiesAssumption ==
    /\ Unchecked \subseteq Names /\ NameSets \subseteq SUBSET Names /\ Limits \subseteq SUBSET Names
    /\ Lives \subseteq Nat \ {0} /\ MaxNow \in Nat /\ Policy \in {"always", "once", "never"}
    /\ FirstAuthorities \in [DOMAIN FirstAuthorities -> AuthorityRows]
    /\ FirstCertificates \in [DOMAIN FirstCertificates -> CertificateRows]
    /\ Foreign \in [DOMAIN Foreign -> ForeignCerts]
    /\ None \notin Serials \cup CertificateIds /\ AuthorityIds \cap DOMAIN Foreign = {}
    /\ \A a \in DOMAIN FirstAuthorities :
          FirstAuthorities[a].parent \in DOMAIN FirstAuthorities \cup {None}
    /\ \A c \in DOMAIN FirstCertificates :
          FirstCertificates[c].authority \in DOMAIN FirstAuthorities

\* What a request inserts has an id that nothing had before.
ASSUME FreshAssumption == Requests \cap (DOMAIN FirstAuthorities \cup DOMAIN FirstCertificates) = {}

\* What a certificate must grant to whatever was signed with it.
Covers(issuer, until, forCA, names) ==
    /\ until <= issuer.until
    /\ forCA => ~issuer.leafOnly
    /\ names \ Unchecked \subseteq issuer.permits

\* The names of a row of the certificates table that were checked.
CheckedNames(row) == IF row.checked THEN row.names ELSE {}

\* The CA certificates in the tables at the start, and those to be imported.
FirstCACerts == {FirstAuthorities[a].cert : a \in DOMAIN FirstAuthorities}
                \cup {ForeignCert(f) : f \in DOMAIN Foreign}

\* A serial number means one certificate, it covers what names it as its signer,
\* and no row shows more names than its certificate permits.
ASSUME SignedAssumption ==
    /\ \A x \in FirstCACerts :
          /\ {x.serial, x.signer} \cap Requests = {}
          /\ \A y \in FirstCACerts :
                /\ x.serial = y.serial => x = y
                /\ y.signer = x.serial => Covers(x, y.until, TRUE, {})
    /\ \A a \in DOMAIN FirstAuthorities : FirstAuthorities[a].permits \subseteq FirstAuthorities[a].cert.permits
    /\ \A c \in DOMAIN FirstCertificates :
          LET row == FirstCertificates[c] IN
          /\ row.signer \notin Requests
          /\ CheckedNames(row) \ Unchecked \subseteq FirstAuthorities[row.authority].permits
          /\ \A x \in FirstCACerts : row.signer = x.serial => Covers(x, row.until, FALSE, CheckedNames(row))

VARIABLES
    authorities,   \* the table, NoRow where there is none
    certificates,  \* the table
    now,           \* the clock
    request,       \* what each request was asked, its next statement, the rows it has read
    handed,        \* history: how often the key of a row was handed out
    raced          \* history: the certificates whose row two requests held to write it

tables == <<authorities, certificates>>
vars   == <<tables, now, request, handed, raced>>

Steps == {"idle", "done", "insertAuthority", "urls", "saveAuthority", "countCertificates",
          "countChildren", "cascade", "renewParent", "renewAuthority", "issue", "renewCA", "renew",
          "saveCertificate", "deleteCertificate", "download"}

\* The arguments and variables of a handler.
Handlers == [step : Steps, ca : AuthorityIds \cup {None}, cert : CertificateIds \cup {None}, life : Nat,
             permits : SUBSET Names, leafOnly : BOOLEAN, names : SUBSET Names,
             force : BOOLEAN, own : BOOLEAN, foreign : DOMAIN Foreign \cup {None},
             seenCA : AuthorityRows \cup {NoRow}, seenParent : AuthorityRows \cup {NoRow},
             seenCert : CertificateRows \cup {NoRow}]

\* Before a request is made; done keeps nothing of it.
Idle == [step |-> "idle", ca |-> None, cert |-> None, life |-> 0, permits |-> {}, leafOnly |-> FALSE,
         names |-> {}, force |-> FALSE, own |-> FALSE, foreign |-> None,
         seenCA |-> NoRow, seenParent |-> NoRow, seenCert |-> NoRow]
Done == [Idle EXCEPT !.step = "done"]

\* The rows are whole, whatever requests stop half way, and no root hangs from
\* another authority.
TypeOK ==
    /\ authorities \in [AuthorityIds -> AuthorityRows \cup {NoRow}]
    /\ certificates \in [CertificateIds -> CertificateRows \cup {NoRow}]
    /\ now \in 0 .. MaxNow
    /\ request \in [Requests -> Handlers]
    /\ handed \in [CertificateIds -> Nat] /\ raced \in SUBSET CertificateIds

Init ==
    /\ authorities = [a \in AuthorityIds |->
          IF a \in DOMAIN FirstAuthorities THEN FirstAuthorities[a] ELSE NoRow]
    /\ certificates = [c \in CertificateIds |->
          IF c \in DOMAIN FirstCertificates THEN FirstCertificates[c] ELSE NoRow]
    /\ now = 0 /\ request = [r \in Requests |-> Idle]
    /\ handed = [c \in CertificateIds |-> 0] /\ raced = {}

-----------------------------------------------------------------------------
(* The tables                                                              *)

KeptCAs   == {a \in AuthorityIds : authorities[a].kept}
KeptCerts == {c \in CertificateIds : certificates[c].kept}

Children(a) == {b \in KeptCAs : authorities[b].parent = a}
IssuedBy(a) == {c \in KeptCerts : certificates[c].authority = a}

Refers_Anywhere(row) == TRUE
\* The database refuses a row whose foreign key points nowhere.
Refers(row) == row.parent \in KeptCAs \cup {None}

\* Chain walks up at most 16 issuers, from what is above a (None above a
\* root) to None, and stays at one that is missing; LoadCA needs all of them.
Chain(a) ==
    LET Up[n \in 0 .. 15] ==
          LET below == IF n = 0 THEN a ELSE Up[n - 1]
          IN  IF below \in AuthorityIds /\ authorities[below].kept THEN authorities[below].parent ELSE below
    IN  Up[15]
Loadable(a) == a \in KeptCAs /\ Chain(a) = None

\* What DELETE removes, and whether the foreign keys let it.
Cascade(a, force) == IF force THEN {a} \cup Children(a) ELSE {a}
MayDelete_OneLevel(a, force) == force \/ (Children(a) = {} /\ IssuedBy(a) = {})
MayDelete(a, force) ==
    /\ \A b \in Cascade(a, force) : Children(b) \subseteq Cascade(a, force)
    /\ \A b \in Cascade(a, force) : IssuedBy(b) = {} \/ (force /\ b = a)

-----------------------------------------------------------------------------
(* Signing                                                                 *)

CanSign_AnyEnd(issuer, until, forCA) ==
    issuer.from <= now /\ now <= issuer.until /\ (forCA => ~issuer.leafOnly)
\* checkIssuerCanSign: no path length but zero is ever looked at.
CanSign(issuer, until, forCA) ==
    /\ issuer.from <= now /\ now <= issuer.until
    /\ until <= issuer.until
    /\ forCA => ~issuer.leafOnly

\* checkNameConstraints looks at the row of the issuing CA, at no ancestor.
Permitted(row, names) == (names \ Unchecked) \subseteq row.permits

\* caTemplate: a new CA certificate carries the limits it was asked for.
NewCACert(r, signer) ==
    [serial |-> r, signer |-> signer, from |-> now, until |-> now + request[r].life,
     permits |-> request[r].permits, leafOnly |-> request[r].leafOnly]

\* RenewAuthority: SignPublicKey writes neither a path length nor constraints.
RenewedCACert(r, signer) ==
    [serial |-> r, signer |-> signer, from |-> now, until |-> now + request[r].life,
     permits |-> Names, leafOnly |-> FALSE]

\* persistAuthority: the columns are read back off the certificate.
AuthorityRow(type, parent, cert) ==
    [kept |-> TRUE, type |-> type, parent |-> parent, cert |-> cert,
     permits |-> cert.permits, leafOnly |-> cert.leafOnly]

CertificateRow(r, ca, row, names, checked, life, key) ==
    [kept |-> TRUE, authority |-> ca, signer |-> row.cert.serial, from |-> now, until |-> now + life,
     names |-> names, checked |-> checked, key |-> key, downloads |-> 0]

-----------------------------------------------------------------------------
(* Steps                                                                   *)

At(r, step) == request[r].step = step
Set(r, q)   == request' = [request EXCEPT ![r] = q]
Stop(r)     == Set(r, Done)

SaveCA(a, row)   == authorities' = [authorities EXCEPT ![a] = row]
SaveCert(c, row) == certificates' = [certificates EXCEPT ![c] = row]

NewLimits == [life : Lives, permits : Limits, leafOnly : BOOLEAN]

\* CreateAuthority: a root is signed and inserted at once; an intermediate
\* needs its parent first.
CreateRoot(r) ==
    /\ At(r, "idle") /\ "CreateAuthority" \in Ops
    /\ \E new \in NewLimits :
          LET row == AuthorityRow("root", None,
                        [serial |-> r, signer |-> None, from |-> now, until |-> now + new.life,
                         permits |-> new.permits, leafOnly |-> new.leafOnly])
          IN  SaveCA(r, row) /\ Set(r, [Idle EXCEPT !.step = "urls", !.ca = r, !.seenCA = row])
    /\ UNCHANGED <<certificates, now, handed, raced>>

CreateRead(r) ==
    /\ At(r, "idle") /\ "CreateAuthority" \in Ops
    /\ \E new \in NewLimits, a \in KeptCAs :
          /\ Loadable(a)
          /\ Set(r, [Idle EXCEPT !.step = "insertAuthority", !.ca = a, !.seenParent = authorities[a],
                         !.life = new.life, !.permits = new.permits, !.leafOnly = new.leafOnly])
    /\ UNCHANGED <<tables, now, handed, raced>>

\* The fingerprint and the issuer's name are looked up in one reading of the
\* table; the issuer is recognised by its common name alone.
ImportRead(r) ==
    /\ At(r, "idle") /\ "ImportAuthority" \in Ops
    /\ \E f \in DOMAIN Foreign :
          /\ \A a \in KeptCAs : authorities[a].cert.serial # f
          /\ Set(r, [Idle EXCEPT !.step = "insertAuthority", !.foreign = f,
                         !.ca = IF Foreign[f].issuer \in KeptCAs THEN Foreign[f].issuer ELSE None])
    /\ UNCHANGED <<tables, now, handed, raced>>

ImportedRow_SelfSigned(f, parent) ==
    AuthorityRow(IF Foreign[f].selfSigned THEN "root" ELSE "intermediate", parent, ForeignCert(f))
ImportedRow(f, parent) ==
    AuthorityRow(IF Foreign[f].selfSigned /\ parent = None THEN "root" ELSE "intermediate", parent,
                 ForeignCert(f))

\* CreateIntermediateCA or what was imported, then AuthorityRepo.Create.
InsertAuthority(r) ==
    /\ At(r, "insertAuthority")
    /\ LET q   == request[r]
           row == IF q.foreign # None THEN ImportedRow(q.foreign, q.ca)
                  ELSE AuthorityRow("intermediate", q.ca, NewCACert(r, q.seenParent.cert.serial))
       IN  IF (q.foreign # None \/ CanSign(q.seenParent.cert, row.cert.until, TRUE)) /\ Refers(row)
           THEN SaveCA(r, row) /\ Set(r, [Idle EXCEPT !.step = "urls", !.ca = r, !.seenCA = row])
           ELSE Stop(r) /\ UNCHANGED authorities
    /\ UNCHANGED <<certificates, now, handed, raced>>

\* UpdateAuthority, GenerateCRL and the refresh of statuses read a row, change
\* columns that are left out here, and write all of it back.
UpdateRead(r) ==
    /\ At(r, "idle") /\ "UpdateAuthority" \in Ops
    /\ \E a \in KeptCAs : Set(r, [Idle EXCEPT !.step = "saveAuthority", !.ca = a, !.seenCA = authorities[a]])
    /\ UNCHANGED <<tables, now, handed, raced>>

\* Save inserts a row that is gone again.  The URLs of a new authority hold
\* its id, and are set in a save of their own.
SaveAuthority(r) ==
    /\ request[r].step \in {"urls", "saveAuthority"}
    /\ IF Refers(request[r].seenCA) THEN SaveCA(request[r].ca, request[r].seenCA) ELSE UNCHANGED authorities
    /\ Stop(r)
    /\ UNCHANGED <<certificates, now, handed, raced>>

\* DeleteAuthority; AuthorityRepo.Delete counts first, unless it is forced.
DeleteRead(r) ==
    /\ At(r, "idle") /\ "DeleteAuthority" \in Ops
    /\ \E a \in KeptCAs, force \in BOOLEAN :
          Set(r, [Idle EXCEPT !.step = IF force THEN "cascade" ELSE "countCertificates",
                              !.ca = a, !.force = force])
    /\ UNCHANGED <<tables, now, handed, raced>>

CountCertificates(r) ==
    /\ At(r, "countCertificates")
    /\ IF IssuedBy(request[r].ca) = {} THEN Set(r, [request[r] EXCEPT !.step = "countChildren"]) ELSE Stop(r)
    /\ UNCHANGED <<tables, now, handed, raced>>

CountChildren(r) ==
    /\ At(r, "countChildren")
    /\ IF Children(request[r].ca) = {} THEN Set(r, [request[r] EXCEPT !.step = "cascade"]) ELSE Stop(r)
    /\ UNCHANGED <<tables, now, handed, raced>>

\* One transaction: a foreign key that would point nowhere undoes all of it.
Delete(r) ==
    /\ At(r, "cascade")
    /\ LET a == request[r].ca  force == request[r].force
       IN  IF MayDelete(a, force)
           THEN /\ authorities' = [b \in AuthorityIds |->
                      IF b \in Cascade(a, force) THEN NoRow ELSE authorities[b]]
                /\ certificates' = [c \in CertificateIds |->
                      IF force /\ c \in IssuedBy(a) THEN NoRow ELSE certificates[c]]
           ELSE UNCHANGED tables
    /\ Stop(r)
    /\ UNCHANGED <<now, handed, raced>>

\* RenewAuthority; without a validity the one it had.
RenewAuthorityRead(r) ==
    /\ At(r, "idle") /\ "RenewAuthority" \in Ops
    /\ \E a \in KeptCAs, l \in Lives \cup {0} :
          LET row == authorities[a] IN
          /\ Loadable(a) /\ (row.type = "root" \/ row.parent # None)
          /\ Set(r, [Idle EXCEPT !.step = IF row.type = "root" THEN "renewAuthority" ELSE "renewParent",
                         !.ca = a, !.seenCA = row,
                         !.life = IF l = 0 THEN row.cert.until - row.cert.from ELSE l])
    /\ UNCHANGED <<tables, now, handed, raced>>

RenewParentRead(r) ==
    /\ At(r, "renewParent")
    /\ LET p == request[r].seenCA.parent
       IN  IF Loadable(p)
           THEN Set(r, [request[r] EXCEPT !.step = "renewAuthority", !.seenParent = authorities[p]])
           ELSE Stop(r)
    /\ UNCHANGED <<tables, now, handed, raced>>

\* A root is signed with the certificate it replaces.
RenewAuthority(r) ==
    /\ At(r, "renewAuthority")
    /\ LET row    == request[r].seenCA
           issuer == IF row.type = "root" THEN row.cert ELSE request[r].seenParent.cert
           cert   == RenewedCACert(r, IF row.type = "root" THEN None ELSE issuer.serial)
       IN  IF CanSign(issuer, cert.until, TRUE) /\ Refers(row)
           THEN SaveCA(request[r].ca, [row EXCEPT !.cert = cert]) ELSE UNCHANGED authorities
    /\ Stop(r)
    /\ UNCHANGED <<certificates, now, handed, raced>>

\* Issue makes a key of its own; SignCSR, and an ACME order, bring one.
IssueRead(r) ==
    /\ At(r, "idle") /\ {"Issue", "SignCSR"} \cap Ops # {}
    /\ \E a \in KeptCAs, S \in NameSets, l \in Lives, own \in BOOLEAN :
          /\ (IF own THEN "Issue" ELSE "SignCSR") \in Ops
          /\ Loadable(a) /\ Permitted(authorities[a], S)
          /\ Set(r, [Idle EXCEPT !.step = "issue", !.ca = a, !.names = S, !.life = l, !.own = own,
                                 !.seenCA = authorities[a]])
    /\ UNCHANGED <<tables, now, handed, raced>>

Issue(r) ==
    /\ At(r, "issue")
    /\ LET q   == request[r]
           row == CertificateRow(r, q.ca, q.seenCA, q.names, TRUE, q.life, IF q.own THEN r ELSE None)
       IN  IF CanSign(q.seenCA.cert, row.until, FALSE) /\ q.ca \in KeptCAs
           THEN SaveCert(r, row) ELSE UNCHANGED certificates
    /\ Stop(r)
    /\ UNCHANGED <<authorities, now, handed, raced>>

\* Renew: GetWithAuthority, in two statements; own: with a new key.
RenewRead(r) ==
    /\ At(r, "idle") /\ "Renew" \in Ops
    /\ \E c \in KeptCerts, S \in NameSets \cup {{}}, l \in Lives \cup {0}, rekey \in BOOLEAN :
          LET row == certificates[c] IN
          Set(r, [Idle EXCEPT !.step = "renewCA", !.cert = c, !.names = S, !.own = rekey,
                              !.life = IF l = 0 THEN row.until - row.from ELSE l,
                              !.ca = row.authority, !.seenCert = row])
    /\ UNCHANGED <<tables, now, handed, raced>>

RenewCA(r) ==
    /\ At(r, "renewCA")
    /\ LET q == request[r]
       IN  IF Loadable(q.ca) /\ (q.own \/ q.seenCert.key # None)
           THEN Set(r, [q EXCEPT !.step = "renew", !.seenCA = authorities[q.ca]]) ELSE Stop(r)
    /\ UNCHANGED <<tables, now, handed, raced>>

\* Other names may be asked for; no constraint is looked at.
Renew(r) ==
    /\ At(r, "renew")
    /\ LET q    == request[r]
           old  == q.seenCert
           same == q.names = {}
           row  == CertificateRow(r, q.ca, q.seenCA, IF same THEN old.names ELSE q.names,
                                  same /\ old.checked,
                                  q.life, IF q.own THEN r ELSE old.key)
       IN  IF CanSign(q.seenCA.cert, row.until, FALSE) /\ q.ca \in KeptCAs
           THEN SaveCert(r, row) ELSE UNCHANGED certificates
    /\ Stop(r)
    /\ UNCHANGED <<authorities, now, handed, raced>>

Writes(r) == request[r].step \in {"saveCertificate", "download"}

\* A row is read, perhaps while another request is about to write it.
Reads(c) == raced' = raced \cup {d \in {c} : \E q \in Requests : Writes(q) /\ request[q].cert = d}

\* UpdateCertificate: the whole row, its download count included.
EditRead(r) ==
    /\ At(r, "idle") /\ "UpdateCertificate" \in Ops
    /\ \E c \in KeptCerts :
          /\ Set(r, [Idle EXCEPT !.step = "saveCertificate", !.cert = c, !.seenCert = certificates[c]])
          /\ Reads(c)
    /\ UNCHANGED <<tables, now, handed>>

SaveCertificate(r) ==
    /\ At(r, "saveCertificate")
    /\ IF request[r].seenCert.authority \in KeptCAs
       THEN SaveCert(request[r].cert, request[r].seenCert) ELSE UNCHANGED certificates
    /\ Stop(r)
    /\ UNCHANGED <<authorities, now, handed, raced>>

DeleteCertificateRead(r) ==
    /\ At(r, "idle") /\ "DeleteCertificate" \in Ops
    /\ \E c \in KeptCerts : Set(r, [Idle EXCEPT !.step = "deleteCertificate", !.cert = c])
    /\ UNCHANGED <<tables, now, handed, raced>>

DeleteCertificate(r) ==
    /\ At(r, "deleteCertificate")
    /\ SaveCert(request[r].cert, NoRow) /\ Stop(r)
    /\ UNCHANGED <<authorities, now, handed, raced>>

Authorized_Twice(row) == Policy = "always" \/ (Policy = "once" /\ row.downloads <= 1)
\* AuthorizeKeyDownload
Authorized(row)       == Policy = "always" \/ (Policy = "once" /\ row.downloads = 0)

DownloadRead(r) ==
    /\ At(r, "idle") /\ "DownloadCertificate" \in Ops
    /\ \E c \in KeptCerts :
          /\ certificates[c].key # None /\ Authorized(certificates[c]) /\ Reads(c)
          /\ Set(r, [Idle EXCEPT !.step = "download", !.cert = c, !.seenCert = certificates[c]])
    /\ UNCHANGED <<tables, now, handed>>

\* The count that was read, plus one; a row that is gone hands out nothing.
Download(r) ==
    /\ At(r, "download")
    /\ LET c == request[r].cert
       IN  IF c \in KeptCerts
           THEN /\ SaveCert(c, [certificates[c] EXCEPT !.downloads = request[r].seenCert.downloads + 1])
                /\ handed' = [handed EXCEPT ![c] = @ + 1]
           ELSE UNCHANGED <<certificates, handed>>
    /\ Stop(r)
    /\ UNCHANGED <<authorities, now, raced>>

\* A statement fails, an argument is refused or the process dies.
Fail(r) ==
    /\ request[r].step \notin {"idle", "done"} /\ Stop(r)
    /\ UNCHANGED <<tables, now, handed, raced>>

Tick == now < MaxNow /\ now' = now + 1 /\ UNCHANGED <<tables, request, handed, raced>>

Step(r) ==
    \/ CreateRoot(r) \/ CreateRead(r) \/ ImportRead(r) \/ InsertAuthority(r)
    \/ UpdateRead(r) \/ SaveAuthority(r)
    \/ DeleteRead(r) \/ CountCertificates(r) \/ CountChildren(r) \/ Delete(r)
    \/ RenewAuthorityRead(r) \/ RenewParentRead(r) \/ RenewAuthority(r)
    \/ IssueRead(r) \/ Issue(r) \/ RenewRead(r) \/ RenewCA(r) \/ Renew(r)
    \/ EditRead(r) \/ SaveCertificate(r) \/ DeleteCertificateRead(r) \/ DeleteCertificate(r)
    \/ DownloadRead(r) \/ Download(r) \/ Fail(r)

Next == Tick \/ \E r \in Requests : Step(r)

Spec == Init /\ [][Next]_vars

-----------------------------------------------------------------------------
(* Properties                                                              *)

\* Whatever is deleted, cascaded, re-inserted by a late save or stopped half
\* way meanwhile: an authority hangs from one that is there, a certificate from
\* its issuer, neither ever moves, and an authority in use goes only together
\* with all that hangs from it ("silently orphaning rows", dto/requests.go:133).
Tree == INSTANCE Registry WITH
    Nodes  <- AuthorityIds,
    Leaves <- CertificateIds,
    nodes  <- KeptCAs,
    above  <- [a \in AuthorityIds |-> IF a \in KeptCAs THEN authorities[a].parent ELSE None],
    holder <- [c \in CertificateIds |-> IF c \in KeptCerts THEN certificates[c].authority ELSE None]
ImplementsRegistry == Tree!Spec

\* As long as an authority shows the certificate that something was signed
\* with, that certificate covers it: it ends no earlier, it allows authorities
\* below it, and it permits the names that were checked.  Renewals of either
\* and saves of old rows come in between.
SignedWithin ==
    /\ \A c \in KeptCerts :
          LET row == certificates[c]  issuer == authorities[row.authority] IN
          issuer.kept /\ issuer.cert.serial = row.signer =>
             Covers(issuer.cert, row.until, FALSE, CheckedNames(row))
    /\ \A a \in KeptCAs :
          LET row == authorities[a] IN
          row.parent \in KeptCAs /\ row.cert.signer = authorities[row.parent].cert.serial =>
             Covers(authorities[row.parent].cert, row.cert.until, TRUE, {})

\* A row counts the downloads of its key, and under a policy of one it hands
\* the key out twice only if a request read it while another was about to write
\* it: nothing else loses the count, late saves of whole rows, deletions and
\* renewals included.  It is a claim about rows: see KeyLeavesOnce.
TwiceWereRaced == Policy = "once" => \A c \in CertificateIds : handed[c] > 1 => c \in raced

\* "this private key has already been downloaded once and the policy allows
\* only one download" (service/certificate.go:679), of the key and not of the
\* row: a renewal without a new key copies it to a row that has counted nothing.
KeyLeavesOnce ==
    Policy = "once" =>
       \A c, d \in KeptCerts \ raced :
          c # d /\ certificates[c].key # None /\ certificates[c].key = certificates[d].key =>
             handed[c] + handed[d] <= 1

\* "NameConstraints mirrors the RFC 5280 extension carried by the CA
\* certificate" (store/models.go:112), and so does PathLenConstraint.
MirrorsCertificate ==
    \A a \in KeptCAs :
       /\ authorities[a].permits = authorities[a].cert.permits
       /\ authorities[a].leafOnly = authorities[a].cert.leafOnly
=============================================================================
