------------------------- MODULE AuthoritiesProofs -------------------------
(* Theorems about Authorities, for every value of its constants.           *)
EXTENDS Authorities, TLAPS

CASteps     == {"urls", "saveAuthority", "renewParent", "renewAuthority", "issue", "renew"}
DeleteSteps == {"countCertificates", "countChildren", "cascade"}
CertSteps   == {"renewCA", "renew", "saveCertificate", "download"}

\* What a request has read when it comes to a step.
Ready(q) ==
    /\ q.step \in CASteps => q.ca \in AuthorityIds /\ q.seenCA.kept
    /\ q.step \in DeleteSteps => q.ca \in AuthorityIds
    /\ q.step = "insertAuthority" /\ q.foreign = None => q.ca \in AuthorityIds /\ q.seenParent.kept
    /\ q.step = "renewParent" => q.seenCA.type = "intermediate" /\ q.seenCA.parent # None
    /\ q.step = "renewAuthority" => q.seenCA.type = "root" \/ q.seenParent.kept
    /\ q.step \in CertSteps => q.cert \in CertificateIds /\ q.seenCert.kept
    /\ q.step = "deleteCertificate" => q.cert \in CertificateIds
    /\ q.step \in {"renewCA", "renew"} => q.ca = q.seenCert.authority
    /\ q.step = "issue" => q.names \ Unchecked \subseteq q.seenCA.permits

TypeInv == TypeOK /\ \A r \in Requests : Ready(request[r])

-----------------------------------------------------------------------------
(* The copies of a row: in the table, and read by a request                *)

CopiesOf(a) == {authorities[b] : b \in KeptCAs \cap {a}}
               \cup {request[r].seenCA : r \in {s \in Requests : request[s].ca = a /\ request[s].seenCA.kept}}
RowsOf(c)   == {certificates[b] : b \in KeptCerts \cap {c}}
               \cup {request[r].seenCert : r \in {s \in Requests : request[s].cert = c /\ request[s].seenCert.kept}}

SeenCACerts == {authorities[a].cert : a \in KeptCAs}
               \cup {request[r].seenCA.cert : r \in {s \in Requests : request[s].seenCA.kept}}
               \cup {request[r].seenParent.cert : r \in {s \in Requests : request[s].seenParent.kept}}
               \cup {ForeignCert(f) : f \in DOMAIN Foreign}

Unissued(r) == request[r].step \in {"idle", "issue", "renewCA", "renew"}

\* What a request will insert is nowhere yet.
FreshInv ==
    \A r \in Requests :
       /\ request[r].step \in {"idle", "insertAuthority"} => CopiesOf(r) = {}
       /\ Unissued(r) => RowsOf(r) = {}

\* No foreign key points nowhere, and no two copies of a row disagree about
\* where it hangs.
TreeInv ==
    /\ \A a \in KeptCAs : authorities[a].parent \in KeptCAs \cup {None}
    /\ \A c \in KeptCerts : certificates[c].authority \in KeptCAs
    /\ \A a \in AuthorityIds : \A x, y \in CopiesOf(a) : x.parent = y.parent /\ x.permits = y.permits
    /\ \A c \in CertificateIds : \A x, y \in RowsOf(c) : x.authority = y.authority

Unsigned(r) == request[r].step \in {"idle", "insertAuthority", "renewParent", "renewAuthority"}

\* A serial number means one certificate, which covers every other it signed.
SerialInv ==
    \A x, y \in SeenCACerts :
       /\ x.serial = y.serial => x = y
       /\ y.signer = x.serial => Covers(x, y.until, TRUE, {})

\* No row shows more names than its certificate permits.
ColumnInv == \A a \in AuthorityIds : \A x \in CopiesOf(a) : x.permits \subseteq x.cert.permits

\* The names that were checked are in the columns they were checked against,
\* and the certificate that signed a row covers it.
RowSigned(row) ==
    /\ \A x \in CopiesOf(row.authority) : CheckedNames(row) \ Unchecked \subseteq x.permits
    /\ \A x \in SeenCACerts : row.signer = x.serial => Covers(x, row.until, FALSE, CheckedNames(row))
RowInv == \A c \in CertificateIds : \A row \in RowsOf(c) : RowSigned(row)

\* Nothing bears the serial number that a request will use, or the id.
UnusedInv ==
    /\ \A r \in Requests : Unsigned(r) =>
          /\ \A x \in SeenCACerts : x.serial # r /\ x.signer # r
          /\ \A c \in CertificateIds : \A row \in RowsOf(c) : row.signer # r
    /\ \A r \in Requests : request[r].step \in {"idle", "insertAuthority"} =>
          \A c \in CertificateIds : \A row \in RowsOf(c) : row.authority # r

SignInv == SerialInv /\ ColumnInv /\ RowInv /\ UnusedInv

\* Of the rows that no request read while another was about to write them: one
\* request at most holds such a row to write it, and no count of downloads that
\* is in the table or may be written forgets one.
KeyInv ==
    Policy = "once" =>
       /\ \A q, r \in Requests : Writes(q) /\ Writes(r) /\ request[q].cert = request[r].cert =>
             q = r \/ request[r].cert \in raced
       /\ \A c \in KeptCerts \ raced : handed[c] <= certificates[c].downloads
       /\ \A r \in Requests : Writes(r) /\ request[r].cert \notin raced =>
             /\ handed[request[r].cert] <= request[r].seenCert.downloads
             /\ request[r].cert \in KeptCerts =>
                   certificates[request[r].cert].downloads = request[r].seenCert.downloads
             /\ request[r].step = "download" => request[r].seenCert.downloads = 0
       /\ \A r \in Requests : Unissued(r) => handed[r] = 0
       /\ \A c \in CertificateIds \ raced : handed[c] <= 1

-----------------------------------------------------------------------------
(* What a step can do                                                      *)

\* Tables are left alone, and what is held afterwards is a copy of what was there.
Looks(r, q) ==
    /\ UNCHANGED tables
    /\ q.seenCA.kept => q.seenCA \in CopiesOf(q.ca)
    /\ q.seenParent.kept => q.seenParent.cert \in SeenCACerts
    /\ q.seenCert.kept => q.seenCert \in RowsOf(q.cert)
    /\ q.step = "insertAuthority" => request[r].step = "idle"
    /\ q.step \in {"issue", "renewCA"} => request[r].step = "idle"
    /\ q.step = "renew" => request[r].step = "renewCA"
    /\ q.step \in {"renewParent", "renewAuthority"} => Unsigned(r)
    /\ q.step # "idle"

\* A certificate is new, and what signed it may sign it.
Signed(r, cert) ==
    /\ cert.serial = r
    /\ cert.signer # None =>
          \E x \in SeenCACerts : cert.signer = x.serial /\ CanSign(x, cert.until, TRUE)

AddsCA(r, q) ==
    /\ request[r].step \in {"idle", "insertAuthority"}
    /\ \E row \in AuthorityRows :
          /\ SaveCA(r, row) /\ Refers(row) /\ row.permits = row.cert.permits
          /\ q = [Idle EXCEPT !.step = "urls", !.ca = r, !.seenCA = row]
          /\ Signed(r, row.cert) \/ \E f \in DOMAIN Foreign : row.cert = ForeignCert(f)
    /\ UNCHANGED certificates

SavesCA(r, q) ==
    /\ request[r].step \in CASteps /\ q = Done
    /\ Refers(request[r].seenCA) /\ SaveCA(request[r].ca, request[r].seenCA)
    /\ UNCHANGED certificates

RenewsCA(r, q) ==
    /\ request[r].step = "renewAuthority" /\ q = Done
    /\ Refers(request[r].seenCA)
    /\ \E cert \in CACerts :
          /\ SaveCA(request[r].ca, [request[r].seenCA EXCEPT !.cert = cert])
          /\ Signed(r, cert) /\ cert.permits = Names
    /\ UNCHANGED certificates

DropsCA(r, q) ==
    /\ q = Done
    /\ \E a \in AuthorityIds, force \in BOOLEAN :
          /\ MayDelete(a, force)
          /\ authorities' = [b \in AuthorityIds |-> IF b \in Cascade(a, force) THEN NoRow ELSE authorities[b]]
          /\ certificates' = [c \in CertificateIds |->
                IF force /\ c \in IssuedBy(a) THEN NoRow ELSE certificates[c]]

AddsRow(r, q) ==
    /\ request[r].step \in {"issue", "renew"} /\ q = Done
    /\ \E row \in CertificateRows :
          /\ SaveCert(r, row) /\ row.authority = request[r].ca /\ row.authority \in KeptCAs
          /\ row.signer = request[r].seenCA.cert.serial
          /\ row.until <= request[r].seenCA.cert.until
          /\ \/ CheckedNames(row) \ Unchecked \subseteq request[r].seenCA.permits
             \/ request[r].step = "renew" /\ CheckedNames(row) = CheckedNames(request[r].seenCert)
          /\ row.downloads = 0
    /\ UNCHANGED authorities

\* A row that was read is put back, or counts another download.
SavesRow(r, q) ==
    /\ q = Done
    /\ \E c \in CertificateIds : \E row \in CertificateRows, old \in RowsOf(c) :
          /\ SaveCert(c, row)
          /\ row.authority = old.authority /\ row.signer = old.signer
          /\ row.until = old.until /\ CheckedNames(row) = CheckedNames(old)
          /\ row.authority \in KeptCAs \/ (c \in KeptCerts /\ old = certificates[c])
    /\ UNCHANGED authorities

DropsRow(r, q) ==
    /\ q = Done
    /\ \E c \in CertificateIds : SaveCert(c, NoRow)
    /\ UNCHANGED authorities

Does(r, q) == \/ Looks(r, q) \/ AddsCA(r, q) \/ SavesCA(r, q) \/ RenewsCA(r, q) \/ DropsCA(r, q)
              \/ AddsRow(r, q) \/ SavesRow(r, q) \/ DropsRow(r, q)

\* The shape of every step of a request.
Moves(r) == \E q \in Handlers : Set(r, q) /\ Ready(q) /\ Does(r, q)

LEMMA RowsKept ==
    /\ \A row \in AuthorityRows : row.kept
    /\ \A row \in CertificateRows : row.kept
    /\ ~NoRow.kept
  BY DEF AuthorityRows, CertificateRows, NoRow

LEMMA TablesTyped ==
    ASSUME TypeInv
    PROVE  /\ \A a \in AuthorityIds : authorities[a].kept => authorities[a] \in AuthorityRows
           /\ \A c \in CertificateIds : certificates[c].kept => certificates[c] \in CertificateRows
           /\ \A r \in Requests :
                 /\ request[r] \in Handlers /\ Ready(request[r])
                 /\ request[r].seenCA.kept => request[r].seenCA \in AuthorityRows
                 /\ request[r].seenParent.kept => request[r].seenParent \in AuthorityRows
                 /\ request[r].seenCert.kept => request[r].seenCert \in CertificateRows
  <1>1. \A r \in Requests : request[r] \in Handlers /\ Ready(request[r])
    BY DEF TypeInv, TypeOK
  <1>2. \A q \in Handlers : /\ q.seenCA \in AuthorityRows \cup {NoRow}
                            /\ q.seenParent \in AuthorityRows \cup {NoRow}
                            /\ q.seenCert \in CertificateRows \cup {NoRow}
    BY DEF Handlers
  <1>3. /\ \A a \in AuthorityIds : authorities[a] \in AuthorityRows \cup {NoRow}
        /\ \A c \in CertificateIds : certificates[c] \in CertificateRows \cup {NoRow}
    BY DEF TypeInv, TypeOK
  <1> QED
    BY <1>1, <1>2, <1>3, RowsKept

LEMMA IdleTyped == Idle \in Handlers /\ Done \in Handlers /\ Ready(Idle) /\ Ready(Done)
  BY RowsKept DEF Idle, Done, Handlers, Steps, Ready, CASteps, DeleteSteps, CertSteps

LEMMA Copied ==
    /\ \A a \in KeptCAs : authorities[a] \in CopiesOf(a) /\ authorities[a].cert \in SeenCACerts
    /\ \A c \in KeptCerts : certificates[c] \in RowsOf(c)
    /\ \A r \in Requests :
          /\ request[r].seenCA.kept =>
                request[r].seenCA \in CopiesOf(request[r].ca) /\ request[r].seenCA.cert \in SeenCACerts
          /\ request[r].seenParent.kept => request[r].seenParent.cert \in SeenCACerts
          /\ request[r].seenCert.kept => request[r].seenCert \in RowsOf(request[r].cert)
  <1>1. \A a \in KeptCAs : authorities[a] \in CopiesOf(a)
    BY DEF CopiesOf
  <1>2. \A a \in KeptCAs : authorities[a].cert \in SeenCACerts
    BY DEF SeenCACerts
  <1>3. \A c \in KeptCerts : certificates[c] \in RowsOf(c)
    BY DEF RowsOf
  <1>4. \A r \in Requests : request[r].seenCA.kept => request[r].seenCA \in CopiesOf(request[r].ca)
    BY DEF CopiesOf
  <1>5. \A r \in Requests :
          /\ request[r].seenCA.kept => request[r].seenCA.cert \in SeenCACerts
          /\ request[r].seenParent.kept => request[r].seenParent.cert \in SeenCACerts
    BY DEF SeenCACerts
  <1>6. \A r \in Requests : request[r].seenCert.kept => request[r].seenCert \in RowsOf(request[r].cert)
    BY DEF RowsOf
  <1> QED
    BY <1>1, <1>2, <1>3, <1>4, <1>5, <1>6

\* A copy is a whole row.
LEMMA CopiesTyped ==
    ASSUME TypeInv
    PROVE  /\ \A a : CopiesOf(a) \subseteq AuthorityRows
           /\ \A c : RowsOf(c) \subseteq CertificateRows
  BY TablesTyped DEF CopiesOf, RowsOf, KeptCAs, KeptCerts

LEMMA NewCATyped ==
    ASSUME TypeInv, NEW r \in Requests
    PROVE  /\ \A new \in NewLimits, signer \in Serials \cup {None} :
                 [serial |-> r, signer |-> signer, from |-> now, until |-> now + new.life,
                  permits |-> new.permits, leafOnly |-> new.leafOnly] \in CACerts
           /\ \A signer \in Serials \cup {None} :
                 /\ NewCACert(r, signer) \in CACerts
                 /\ RenewedCACert(r, signer) \in CACerts
           /\ \A f \in DOMAIN Foreign : ForeignCert(f) \in CACerts
  <1>1. now \in Nat /\ request[r] \in Handlers
    BY AuthoritiesAssumption DEF TypeInv, TypeOK
  <1>2. request[r].life \in Nat /\ request[r].permits \in SUBSET Names /\ request[r].leafOnly \in BOOLEAN
    BY <1>1 DEF Handlers
  <1>3. r \in Serials
    BY DEF Serials, AuthorityIds
  <1>4. \A new \in NewLimits : new.life \in Nat /\ new.permits \in SUBSET Names /\ new.leafOnly \in BOOLEAN
    BY AuthoritiesAssumption DEF NewLimits
  <1>5. \A f \in DOMAIN Foreign : Foreign[f] \in ForeignCerts /\ f \in Serials
    BY AuthoritiesAssumption DEF Serials
  <1> QED
    BY <1>1, <1>2, <1>3, <1>4, <1>5 DEF CACerts, NewCACert, RenewedCACert, ForeignCert, ForeignCerts

LEMMA SerialsTyped ==
    ASSUME TypeInv
    PROVE  /\ \A row \in AuthorityRows :
                 /\ row.cert \in CACerts /\ row.cert.serial \in Serials /\ row.cert.permits \in SUBSET Names
                 /\ row.parent \in AuthorityIds \cup {None} /\ row.permits \in SUBSET Names
                 /\ row.type \in {"root", "intermediate"}
           /\ None \notin Serials /\ None \notin AuthorityIds /\ None \notin CertificateIds
  BY AuthoritiesAssumption DEF AuthorityRows, CACerts, Serials

LEMMA NewRowTyped ==
    ASSUME NEW cert \in CACerts, NEW parent \in AuthorityIds \cup {None},
           NEW type \in {"root", "intermediate"}, type = "root" => parent = None
    PROVE  AuthorityRow(type, parent, cert) \in AuthorityRows
  <1>1. cert.permits \in SUBSET Names /\ cert.leafOnly \in BOOLEAN
    BY DEF CACerts
  <1> QED
    BY <1>1 DEF AuthorityRow, AuthorityRows

\* Inserting an authority.
LEMMA AddedCAMoves ==
    ASSUME TypeInv, NEW r \in Requests, NEW row \in AuthorityRows,
           request[r].step \in {"idle", "insertAuthority"},
           SaveCA(r, row), Refers(row), row.permits = row.cert.permits,
           Set(r, [Idle EXCEPT !.step = "urls", !.ca = r, !.seenCA = row]),
           Signed(r, row.cert) \/ \E f \in DOMAIN Foreign : row.cert = ForeignCert(f),
           UNCHANGED certificates
    PROVE  Moves(r)
  <1> DEFINE q == [Idle EXCEPT !.step = "urls", !.ca = r, !.seenCA = row]
  <1>1. /\ q.step = "urls" /\ q.ca = r /\ q.seenCA = row
        /\ q \in Handlers
    BY DEF Idle, Handlers, Steps, AuthorityIds
  <1>2. Ready(q)
    BY <1>1, RowsKept DEF Ready, CASteps, DeleteSteps, CertSteps, AuthorityIds
  <1>3. AddsCA(r, q)
    BY DEF AddsCA
  <1> QED
    BY <1>1, <1>2, <1>3 DEF Moves, Does

LEMMA CreateRootMoves == ASSUME TypeInv, NEW r \in Requests, CreateRoot(r) PROVE Moves(r)
  <1>1. PICK new \in NewLimits :
          LET row == AuthorityRow("root", None,
                        [serial |-> r, signer |-> None, from |-> now, until |-> now + new.life,
                         permits |-> new.permits, leafOnly |-> new.leafOnly])
          IN  SaveCA(r, row) /\ Set(r, [Idle EXCEPT !.step = "urls", !.ca = r, !.seenCA = row])
    BY DEF CreateRoot
  <1> DEFINE cert == [serial |-> r, signer |-> None, from |-> now, until |-> now + new.life,
                      permits |-> new.permits, leafOnly |-> new.leafOnly]
             row  == AuthorityRow("root", None, cert)
  <1>2. cert \in CACerts
    BY NewCATyped
  <1>3. row \in AuthorityRows
    BY <1>2, NewRowTyped
  <1>4. Refers(row) /\ row.permits = row.cert.permits /\ Signed(r, row.cert)
    BY DEF Refers, Signed, AuthorityRow
  <1> QED
    BY <1>1, <1>3, <1>4, AddedCAMoves DEF CreateRoot, At

LEMMA StopMoves ==
    ASSUME NEW r \in Requests, Stop(r), Does(r, Done) PROVE Moves(r)
  BY IdleTyped DEF Stop, Moves

LEMMA StopLooks ==
    ASSUME UNCHANGED tables, NEW r \in Requests PROVE Does(r, Done)
  <1>1. /\ ~Done.seenCA.kept /\ ~Done.seenParent.kept /\ ~Done.seenCert.kept
        /\ Done.step = "done"
    BY RowsKept DEF Done, Idle
  <1> QED
    BY <1>1 DEF Does, Looks

LEMMA InsertAuthorityMoves == ASSUME TypeInv, NEW r \in Requests, InsertAuthority(r) PROVE Moves(r)
  <1> DEFINE q   == request[r]
             row == IF q.foreign # None THEN ImportedRow(q.foreign, q.ca)
                    ELSE AuthorityRow("intermediate", q.ca, NewCACert(r, q.seenParent.cert.serial))
  <1>t. q \in Handlers /\ Ready(q) /\ q.step = "insertAuthority"
    BY TablesTyped DEF InsertAuthority, At
  <1>f. q.ca \in AuthorityIds \cup {None} /\ q.foreign \in DOMAIN Foreign \cup {None}
    BY <1>t DEF Handlers
  <1>1. CASE (q.foreign # None \/ CanSign(q.seenParent.cert, row.cert.until, TRUE)) /\ Refers(row)
    <2>1. /\ SaveCA(r, row)
          /\ Set(r, [Idle EXCEPT !.step = "urls", !.ca = r, !.seenCA = row])
          /\ UNCHANGED certificates
      BY <1>1 DEF InsertAuthority
    <2>2. CASE q.foreign # None
      <3>1. q.foreign \in DOMAIN Foreign /\ row = ImportedRow(q.foreign, q.ca)
        BY <1>f, <2>2
      <3>2. row \in AuthorityRows
        BY <1>f, <3>1, NewCATyped, NewRowTyped DEF ImportedRow
      <3>3. row.cert = ForeignCert(q.foreign) /\ row.permits = row.cert.permits
        BY <3>1 DEF ImportedRow, AuthorityRow
      <3> QED
        BY <1>1, <1>t, <2>1, <3>1, <3>2, <3>3, AddedCAMoves
    <2>3. CASE q.foreign = None
      <3> DEFINE p == q.seenParent.cert  cert == NewCACert(r, p.serial)
      <3>1. q.ca \in AuthorityIds /\ q.seenParent.kept
        BY <1>t, <2>3 DEF Ready
      <3>2. p \in SeenCACerts /\ p.serial \in Serials
        BY <3>1, Copied, TablesTyped, SerialsTyped
      <3>3. cert \in CACerts
        BY <3>2, NewCATyped
      <3>4. row = AuthorityRow("intermediate", q.ca, cert)
        BY <2>3
      <3>5. row \in AuthorityRows
        BY <3>1, <3>3, <3>4, NewRowTyped
      <3>6. row.cert = cert /\ row.permits = row.cert.permits
        BY <3>4 DEF AuthorityRow
      <3>7. CanSign(p, cert.until, TRUE)
        BY <1>1, <2>3, <3>6
      <3>8. Signed(r, cert)
        BY <3>2, <3>7 DEF Signed, NewCACert
      <3> QED
        BY <1>1, <1>t, <2>1, <3>5, <3>6, <3>8, AddedCAMoves
    <2> QED
      BY <2>2, <2>3
  <1>2. CASE ~((q.foreign # None \/ CanSign(q.seenParent.cert, row.cert.until, TRUE)) /\ Refers(row))
    <2>1. Stop(r) /\ UNCHANGED tables
      BY <1>2 DEF InsertAuthority, tables
    <2> QED
      BY <2>1, StopMoves, StopLooks
  <1> QED
    BY <1>1, <1>2

\* Reading a row of either table, or nothing but the clock and the constants.
LEMMA ReadMoves ==
    ASSUME NEW r \in Requests, NEW q \in Handlers, Set(r, q), Ready(q), Looks(r, q) PROVE Moves(r)
  BY DEF Moves, Does

LEMMA CreateReadMoves == ASSUME TypeInv, NEW r \in Requests, CreateRead(r) PROVE Moves(r)
  <1>1. PICK new \in NewLimits, a \in KeptCAs :
           Set(r, [Idle EXCEPT !.step = "insertAuthority", !.ca = a, !.seenParent = authorities[a],
                         !.life = new.life, !.permits = new.permits, !.leafOnly = new.leafOnly])
    BY DEF CreateRead
  <1> DEFINE q == [Idle EXCEPT !.step = "insertAuthority", !.ca = a, !.seenParent = authorities[a],
                         !.life = new.life, !.permits = new.permits, !.leafOnly = new.leafOnly]
  <1>2. a \in AuthorityIds /\ authorities[a].kept /\ authorities[a] \in AuthorityRows
    BY TablesTyped DEF KeptCAs
  <1>3. /\ q.step = "insertAuthority" /\ q.ca = a /\ q.seenParent = authorities[a] /\ q.foreign = None
        /\ q.seenCA = NoRow /\ q.seenCert = NoRow
    BY DEF Idle
  <1>4. q \in Handlers
    BY <1>2, AuthoritiesAssumption DEF NewLimits, Idle, Handlers, Steps
  <1>5. Ready(q)
    BY <1>2, <1>3 DEF Ready, CASteps, DeleteSteps, CertSteps
  <1>6. Looks(r, q)
    BY <1>3, Copied, RowsKept DEF Looks, CreateRead, At
  <1> QED
    BY <1>1, <1>4, <1>5, <1>6, ReadMoves

LEMMA ImportReadMoves == ASSUME TypeInv, NEW r \in Requests, ImportRead(r) PROVE Moves(r)
  <1>1. PICK f \in DOMAIN Foreign :
           Set(r, [Idle EXCEPT !.step = "insertAuthority", !.foreign = f,
                          !.ca = IF Foreign[f].issuer \in KeptCAs THEN Foreign[f].issuer ELSE None])
    BY DEF ImportRead
  <1> DEFINE a == IF Foreign[f].issuer \in KeptCAs THEN Foreign[f].issuer ELSE None
             q == [Idle EXCEPT !.step = "insertAuthority", !.foreign = f, !.ca = a]
  <1>2. a \in AuthorityIds \cup {None}
    BY DEF KeptCAs
  <1>3. /\ q.step = "insertAuthority" /\ q.foreign = f
        /\ q.seenCA = NoRow /\ q.seenCert = NoRow /\ q.seenParent = NoRow
    BY DEF Idle
  <1>4. q \in Handlers
    BY <1>2 DEF Idle, Handlers, Steps
  <1>5. f # None
    BY AuthoritiesAssumption DEF Serials
  <1>6. Ready(q)
    BY <1>3, <1>5 DEF Ready, CASteps, DeleteSteps, CertSteps
  <1>7. Looks(r, q)
    BY <1>3, RowsKept DEF Looks, ImportRead, At
  <1> QED
    BY <1>1, <1>4, <1>6, <1>7, ReadMoves

LEMMA UpdateReadMoves == ASSUME TypeInv, NEW r \in Requests, UpdateRead(r) PROVE Moves(r)
  <1>1. PICK a \in KeptCAs :
           Set(r, [Idle EXCEPT !.step = "saveAuthority", !.ca = a, !.seenCA = authorities[a]])
    BY DEF UpdateRead
  <1> DEFINE q == [Idle EXCEPT !.step = "saveAuthority", !.ca = a, !.seenCA = authorities[a]]
  <1>2. a \in AuthorityIds /\ authorities[a].kept /\ authorities[a] \in AuthorityRows
    BY TablesTyped DEF KeptCAs
  <1>3. /\ q.step = "saveAuthority" /\ q.ca = a /\ q.seenCA = authorities[a]
        /\ q.seenParent = NoRow /\ q.seenCert = NoRow
    BY DEF Idle
  <1>4. q \in Handlers
    BY <1>2 DEF Idle, Handlers, Steps
  <1>5. Ready(q)
    BY <1>2, <1>3 DEF Ready, CASteps, DeleteSteps, CertSteps
  <1>6. Looks(r, q)
    BY <1>3, Copied, RowsKept DEF Looks, UpdateRead
  <1> QED
    BY <1>1, <1>4, <1>5, <1>6, ReadMoves

LEMMA SaveAuthorityMoves == ASSUME TypeInv, NEW r \in Requests, SaveAuthority(r) PROVE Moves(r)
  <1>1. CASE Refers(request[r].seenCA)
    <2>1. SavesCA(r, Done)
      BY <1>1 DEF SaveAuthority, SavesCA, CASteps
    <2> QED
      BY <2>1, StopMoves DEF SaveAuthority, Does
  <1>2. CASE ~Refers(request[r].seenCA)
    <2>1. UNCHANGED tables
      BY <1>2 DEF SaveAuthority, tables
    <2> QED
      BY <2>1, StopMoves, StopLooks DEF SaveAuthority
  <1> QED
    BY <1>1, <1>2

LEMMA DeleteReadMoves == ASSUME TypeInv, NEW r \in Requests, DeleteRead(r) PROVE Moves(r)
  <1>1. PICK a \in KeptCAs, force \in BOOLEAN :
           Set(r, [Idle EXCEPT !.step = IF force THEN "cascade" ELSE "countCertificates",
                               !.ca = a, !.force = force])
    BY DEF DeleteRead
  <1> DEFINE q == [Idle EXCEPT !.step = IF force THEN "cascade" ELSE "countCertificates",
                               !.ca = a, !.force = force]
  <1>2. /\ q.step \in {"cascade", "countCertificates"} /\ q.ca = a /\ a \in AuthorityIds
        /\ q.seenCA = NoRow /\ q.seenParent = NoRow /\ q.seenCert = NoRow
    BY DEF Idle, KeptCAs
  <1>3. q \in Handlers
    BY <1>2 DEF Idle, Handlers, Steps
  <1>4. Ready(q)
    BY <1>2 DEF Ready, CASteps, DeleteSteps, CertSteps
  <1>5. Looks(r, q)
    BY <1>2, RowsKept DEF Looks, DeleteRead
  <1> QED
    BY <1>1, <1>3, <1>4, <1>5, ReadMoves

LEMMA CountMoves ==
    ASSUME TypeInv, NEW r \in Requests, CountCertificates(r) \/ CountChildren(r) PROVE Moves(r)
  <1>1. UNCHANGED tables
    BY DEF CountCertificates, CountChildren
  <1>2. CASE Stop(r)
    BY <1>1, <1>2, StopMoves, StopLooks
  <1>3. CASE ~Stop(r)
    <2>1. PICK step \in {"countChildren", "cascade"} : Set(r, [request[r] EXCEPT !.step = step])
      BY <1>3 DEF CountCertificates, CountChildren
    <2> DEFINE q == [request[r] EXCEPT !.step = step]
    <2>2. /\ request[r] \in Handlers /\ Ready(request[r])
          /\ request[r].step \in {"countCertificates", "countChildren"}
      BY TablesTyped DEF CountCertificates, CountChildren, At
    <2>3. q \in Handlers
      BY <2>2 DEF Handlers, Steps
    <2>4. /\ q.step = step /\ q.ca = request[r].ca /\ q.cert = request[r].cert
          /\ q.seenCA = request[r].seenCA /\ q.seenParent = request[r].seenParent
          /\ q.seenCert = request[r].seenCert
      BY <2>2 DEF Handlers
    <2>5. Ready(q)
      BY <2>2, <2>4 DEF Ready, CASteps, DeleteSteps, CertSteps
    <2>6. Looks(r, q)
      BY <1>1, <2>4, Copied DEF Looks
    <2> QED
      BY <2>1, <2>3, <2>5, <2>6, ReadMoves
  <1> QED
    BY <1>2, <1>3

LEMMA DeleteMoves == ASSUME TypeInv, NEW r \in Requests, Delete(r) PROVE Moves(r)
  <1> DEFINE a == request[r].ca  force == request[r].force
  <1>1. a \in AuthorityIds /\ force \in BOOLEAN
    BY TablesTyped DEF Delete, At, Ready, DeleteSteps, Handlers
  <1>2. CASE MayDelete(a, force)
    <2>1. DropsCA(r, Done)
      BY <1>1, <1>2 DEF Delete, DropsCA
    <2> QED
      BY <2>1, StopMoves DEF Delete, Does
  <1>3. CASE ~MayDelete(a, force)
    BY <1>3, StopMoves, StopLooks DEF Delete
  <1> QED
    BY <1>2, <1>3

LEMMA RenewAuthorityReadMoves ==
    ASSUME TypeInv, NEW r \in Requests, RenewAuthorityRead(r) PROVE Moves(r)
  <1>1. PICK a \in KeptCAs, l \in Lives \cup {0} :
          LET row == authorities[a] IN
          /\ row.type = "root" \/ row.parent # None
          /\ Set(r, [Idle EXCEPT !.step = IF row.type = "root" THEN "renewAuthority" ELSE "renewParent",
                         !.ca = a, !.seenCA = row,
                         !.life = IF l = 0 THEN row.cert.until - row.cert.from ELSE l])
    BY DEF RenewAuthorityRead
  <1> DEFINE row  == authorities[a]
             life == IF l = 0 THEN row.cert.until - row.cert.from ELSE l
             step == IF row.type = "root" THEN "renewAuthority" ELSE "renewParent"
             q    == [Idle EXCEPT !.step = step, !.ca = a, !.seenCA = row, !.life = life]
  <1>2. a \in AuthorityIds /\ row.kept /\ row \in AuthorityRows
    BY TablesTyped DEF KeptCAs
  <1>3. row.type \in {"root", "intermediate"} /\ row.cert \in CACerts
    BY <1>2, SerialsTyped
  <1>4. life \in Nat
    BY <1>3, AuthoritiesAssumption DEF CACerts
  <1>5. /\ q.step = step /\ q.ca = a /\ q.seenCA = row
        /\ q.seenParent = NoRow /\ q.seenCert = NoRow
    BY DEF Idle
  <1>6. q \in Handlers
    <2> HIDE DEF life
    <2> QED
      BY <1>2, <1>4 DEF Idle, Handlers, Steps
  <1>7. Ready(q)
    BY <1>1, <1>2, <1>3, <1>5 DEF Ready, CASteps, DeleteSteps, CertSteps
  <1>8. Looks(r, q)
    BY <1>5, Copied, RowsKept DEF Looks, RenewAuthorityRead, At, Unsigned
  <1> QED
    BY <1>1, <1>6, <1>7, <1>8, ReadMoves

LEMMA RenewParentReadMoves == ASSUME TypeInv, NEW r \in Requests, RenewParentRead(r) PROVE Moves(r)
  <1> DEFINE p == request[r].seenCA.parent
             q == [request[r] EXCEPT !.step = "renewAuthority", !.seenParent = authorities[p]]
  <1>1. CASE Loadable(p)
    <2>1. p \in AuthorityIds /\ p \in KeptCAs /\ authorities[p].kept /\ authorities[p] \in AuthorityRows
      BY <1>1, TablesTyped DEF Loadable, KeptCAs
    <2>2. request[r] \in Handlers /\ Ready(request[r]) /\ request[r].step = "renewParent"
      BY TablesTyped DEF RenewParentRead, At
    <2>3. /\ q \in Handlers /\ q.step = "renewAuthority" /\ q.seenParent = authorities[p]
          /\ q.ca = request[r].ca /\ q.seenCA = request[r].seenCA
          /\ q.cert = request[r].cert /\ q.seenCert = request[r].seenCert
      <3> HIDE DEF p
      <3> QED
        BY <2>1, <2>2 DEF Handlers, Steps
    <2>4. Ready(q)
      BY <2>1, <2>2, <2>3 DEF Ready, CASteps, DeleteSteps, CertSteps
    <2>5. Looks(r, q)
      BY <2>1, <2>2, <2>3, Copied DEF Looks, Unsigned, RenewParentRead
    <2> QED
      BY <1>1, <2>3, <2>4, <2>5, ReadMoves DEF RenewParentRead
  <1>2. CASE ~Loadable(p)
    BY <1>2, StopMoves, StopLooks DEF RenewParentRead
  <1> QED
    BY <1>1, <1>2

LEMMA RenewAuthorityMoves == ASSUME TypeInv, NEW r \in Requests, RenewAuthority(r) PROVE Moves(r)
  <1> DEFINE row    == request[r].seenCA
             issuer == IF row.type = "root" THEN row.cert ELSE request[r].seenParent.cert
             signer == IF row.type = "root" THEN None ELSE issuer.serial
             cert   == RenewedCACert(r, signer)
  <1>1. request[r].step = "renewAuthority" /\ Ready(request[r])
    BY TablesTyped DEF RenewAuthority, At
  <1>2. row.kept /\ (row.type = "root" \/ request[r].seenParent.kept)
    BY <1>1 DEF Ready, CASteps
  <1>3. CASE CanSign(issuer, cert.until, TRUE) /\ Refers(row)
    <2>1. /\ SaveCA(request[r].ca, [row EXCEPT !.cert = cert]) /\ Stop(r)
          /\ UNCHANGED certificates
      BY <1>3 DEF RenewAuthority
    <2>2. issuer \in SeenCACerts
      BY <1>2, Copied
    <2>3. signer \in Serials \cup {None}
      BY <1>2, TablesTyped, SerialsTyped
    <2>4. cert \in CACerts
      BY <2>3, NewCATyped
    <2>5. cert.serial = r /\ cert.signer = signer /\ cert.permits = Names
      BY DEF RenewedCACert
    <2>6. Signed(r, cert)
      BY <1>3, <2>2, <2>5 DEF Signed
    <2>7. RenewsCA(r, Done)
      BY <1>1, <1>3, <2>1, <2>4, <2>5, <2>6 DEF RenewsCA
    <2> QED
      BY <2>1, <2>7, StopMoves DEF Does
  <1>4. CASE ~(CanSign(issuer, cert.until, TRUE) /\ Refers(row))
    <2>1. UNCHANGED tables /\ Stop(r)
      BY <1>4 DEF RenewAuthority, tables
    <2> QED
      BY <2>1, StopMoves, StopLooks
  <1> QED
    BY <1>3, <1>4

LEMMA IssueReadMoves == ASSUME TypeInv, NEW r \in Requests, IssueRead(r) PROVE Moves(r)
  <1>1. PICK a \in KeptCAs, S \in NameSets, l \in Lives, own \in BOOLEAN :
          /\ Permitted(authorities[a], S)
          /\ Set(r, [Idle EXCEPT !.step = "issue", !.ca = a, !.names = S, !.life = l, !.own = own,
                                 !.seenCA = authorities[a]])
    BY DEF IssueRead
  <1> DEFINE q == [Idle EXCEPT !.step = "issue", !.ca = a, !.names = S, !.life = l, !.own = own,
                               !.seenCA = authorities[a]]
  <1>2. a \in AuthorityIds /\ authorities[a].kept /\ authorities[a] \in AuthorityRows
    BY TablesTyped DEF KeptCAs
  <1>3. /\ q.step = "issue" /\ q.ca = a /\ q.seenCA = authorities[a] /\ q.names = S
        /\ q.seenParent = NoRow /\ q.seenCert = NoRow
    BY DEF Idle
  <1>4. S \in SUBSET Names /\ l \in Nat
    BY AuthoritiesAssumption
  <1>5. q \in Handlers
    BY <1>2, <1>4 DEF Idle, Handlers, Steps
  <1>6. Ready(q)
    BY <1>1, <1>2, <1>3 DEF Ready, CASteps, DeleteSteps, CertSteps, Permitted
  <1>7. Looks(r, q)
    BY <1>3, Copied, RowsKept DEF Looks, IssueRead, At
  <1> QED
    BY <1>1, <1>5, <1>6, <1>7, ReadMoves

LEMMA NewCertTyped ==
    ASSUME TypeInv, NEW r \in Requests, NEW ca \in AuthorityIds, NEW issuer \in AuthorityRows,
           NEW names \in SUBSET Names, NEW checked \in BOOLEAN, NEW life \in Nat,
           NEW key \in CertificateIds \cup {None}
    PROVE  CertificateRow(r, ca, issuer, names, checked, life, key) \in CertificateRows
  <1>1. now \in Nat /\ issuer.cert.serial \in Serials
    BY SerialsTyped, AuthoritiesAssumption DEF TypeInv, TypeOK
  <1> QED
    BY <1>1 DEF CertificateRow, CertificateRows

LEMMA IssueMoves == ASSUME TypeInv, NEW r \in Requests, Issue(r) PROVE Moves(r)
  <1> DEFINE q   == request[r]
             key == IF q.own THEN r ELSE None
             row == CertificateRow(r, q.ca, q.seenCA, q.names, TRUE, q.life, key)
  <1>1. /\ q \in Handlers /\ Ready(q) /\ q.step = "issue"
        /\ q.seenCA.kept /\ q.seenCA \in AuthorityRows
        /\ q.ca \in AuthorityIds /\ q.names \ Unchecked \subseteq q.seenCA.permits
    BY TablesTyped DEF Issue, At, Ready, CASteps
  <1>2. CASE CanSign(q.seenCA.cert, row.until, FALSE) /\ q.ca \in KeptCAs
    <2>1. SaveCert(r, row) /\ Stop(r) /\ UNCHANGED authorities
      BY <1>2 DEF Issue
    <2>2. q.names \in SUBSET Names /\ q.life \in Nat /\ key \in CertificateIds \cup {None}
      BY <1>1 DEF Handlers, CertificateIds
    <2>3. row \in CertificateRows
      <3> HIDE DEF key
      <3> QED
        BY <1>1, <2>2, NewCertTyped
    <2>4. /\ row.authority = q.ca /\ row.signer = q.seenCA.cert.serial
          /\ CheckedNames(row) = q.names /\ row.downloads = 0
      BY DEF CertificateRow, CheckedNames
    <2>5. row.until <= q.seenCA.cert.until
      BY <1>2 DEF CanSign
    <2>6. AddsRow(r, Done)
      <3> HIDE DEF row
      <3> QED
        BY <1>1, <1>2, <2>1, <2>3, <2>4, <2>5 DEF AddsRow
    <2> QED
      BY <2>1, <2>6, StopMoves DEF Does
  <1>3. CASE ~(CanSign(q.seenCA.cert, row.until, FALSE) /\ q.ca \in KeptCAs)
    <2>1. UNCHANGED tables /\ Stop(r)
      BY <1>3 DEF Issue, tables
    <2> QED
      BY <2>1, StopMoves, StopLooks
  <1> QED
    BY <1>2, <1>3

LEMMA CertificatesTyped ==
    \A row \in CertificateRows :
       /\ row.authority \in AuthorityIds /\ row.signer \in Serials /\ row.names \in SUBSET Names
       /\ row.checked \in BOOLEAN /\ row.key \in CertificateIds \cup {None}
       /\ row.downloads \in Nat /\ row.until - row.from \in Nat
       /\ \A n \in Nat : [row EXCEPT !.downloads = n] \in CertificateRows
       /\ \A n \in Nat :
             LET new == [row EXCEPT !.downloads = n] IN
             /\ new.authority = row.authority /\ new.signer = row.signer
             /\ new.until = row.until /\ CheckedNames(new) = CheckedNames(row)
  <1>1. ASSUME NEW row \in CertificateRows
        PROVE  /\ row.authority \in AuthorityIds /\ row.signer \in Serials /\ row.names \in SUBSET Names
               /\ row.checked \in BOOLEAN /\ row.key \in CertificateIds \cup {None}
               /\ row.downloads \in Nat /\ row.until - row.from \in Nat
    BY DEF CertificateRows
  <1>3. ASSUME NEW row \in CertificateRows, NEW n \in Nat
        PROVE  [row EXCEPT !.downloads = n] \in CertificateRows
    BY DEF CertificateRows
  <1>2. ASSUME NEW row \in CertificateRows, NEW n \in Nat
        PROVE  LET new == [row EXCEPT !.downloads = n] IN
               /\ new.authority = row.authority /\ new.signer = row.signer
               /\ new.until = row.until /\ CheckedNames(new) = CheckedNames(row)
    BY DEF CertificateRows, CheckedNames
  <1> QED
    BY <1>1, <1>2, <1>3

LEMMA RenewReadMoves == ASSUME TypeInv, NEW r \in Requests, RenewRead(r) PROVE Moves(r)
  <1>1. PICK c \in KeptCerts, S \in NameSets \cup {{}}, l \in Lives \cup {0}, rekey \in BOOLEAN :
          LET row == certificates[c] IN
          Set(r, [Idle EXCEPT !.step = "renewCA", !.cert = c, !.names = S, !.own = rekey,
                              !.life = IF l = 0 THEN row.until - row.from ELSE l,
                              !.ca = row.authority, !.seenCert = row])
    BY DEF RenewRead
  <1> DEFINE row  == certificates[c]
             life == IF l = 0 THEN row.until - row.from ELSE l
             q    == [Idle EXCEPT !.step = "renewCA", !.cert = c, !.names = S, !.own = rekey,
                                  !.life = life, !.ca = row.authority, !.seenCert = row]
  <1>2. c \in CertificateIds /\ row.kept /\ row \in CertificateRows
    BY TablesTyped DEF KeptCerts
  <1>3. row.authority \in AuthorityIds /\ row.until - row.from \in Nat
    BY <1>2, CertificatesTyped
  <1>4. S \in SUBSET Names /\ life \in Nat
    BY <1>3, AuthoritiesAssumption
  <1>5. /\ q.step = "renewCA" /\ q.cert = c /\ q.ca = row.authority /\ q.seenCert = row
        /\ q.seenCA = NoRow /\ q.seenParent = NoRow
    BY DEF Idle
  <1>6. q \in Handlers
    <2> HIDE DEF life
    <2> QED
      BY <1>2, <1>3, <1>4 DEF Idle, Handlers, Steps
  <1>7. Ready(q)
    BY <1>2, <1>5 DEF Ready, CASteps, DeleteSteps, CertSteps
  <1>8. Looks(r, q)
    BY <1>5, Copied, RowsKept DEF Looks, RenewRead, At
  <1> QED
    BY <1>1, <1>6, <1>7, <1>8, ReadMoves

LEMMA RenewCAMoves == ASSUME TypeInv, NEW r \in Requests, RenewCA(r) PROVE Moves(r)
  <1> DEFINE a == request[r].ca
             q == [request[r] EXCEPT !.step = "renew", !.seenCA = authorities[a]]
  <1>1. CASE Loadable(a) /\ (request[r].own \/ request[r].seenCert.key # None)
    <2>1. a \in AuthorityIds /\ a \in KeptCAs /\ authorities[a].kept /\ authorities[a] \in AuthorityRows
      BY <1>1, TablesTyped DEF Loadable, KeptCAs
    <2>2. request[r] \in Handlers /\ Ready(request[r]) /\ request[r].step = "renewCA"
      BY TablesTyped DEF RenewCA, At
    <2>3. /\ q \in Handlers /\ q.step = "renew" /\ q.seenCA = authorities[a]
          /\ q.ca = a /\ q.seenParent = request[r].seenParent
          /\ q.cert = request[r].cert /\ q.seenCert = request[r].seenCert
      BY <2>1, <2>2 DEF Handlers, Steps
    <2>4. Ready(q)
      BY <2>1, <2>2, <2>3 DEF Ready, CASteps, DeleteSteps, CertSteps
    <2>5. Looks(r, q)
      BY <2>1, <2>2, <2>3, Copied DEF Looks, RenewCA
    <2> QED
      BY <1>1, <2>3, <2>4, <2>5, ReadMoves DEF RenewCA
  <1>2. CASE ~(Loadable(a) /\ (request[r].own \/ request[r].seenCert.key # None))
    BY <1>2, StopMoves, StopLooks DEF RenewCA
  <1> QED
    BY <1>1, <1>2

LEMMA RenewMoves == ASSUME TypeInv, NEW r \in Requests, Renew(r) PROVE Moves(r)
  <1> DEFINE q     == request[r]
             old   == q.seenCert
             same  == q.names = {}
             names == IF same THEN old.names ELSE q.names
             key   == IF q.own THEN r ELSE old.key
             row   == CertificateRow(r, q.ca, q.seenCA, names, same /\ old.checked, q.life, key)
  <1>1. /\ q \in Handlers /\ Ready(q) /\ q.step = "renew"
        /\ q.seenCA.kept /\ q.seenCA \in AuthorityRows /\ q.ca \in AuthorityIds
        /\ old.kept /\ old \in CertificateRows
    BY TablesTyped DEF Renew, At, Ready, CASteps, CertSteps
  <1>2. CASE CanSign(q.seenCA.cert, row.until, FALSE) /\ q.ca \in KeptCAs
    <2>1. SaveCert(r, row) /\ Stop(r) /\ UNCHANGED authorities
      BY <1>2 DEF Renew
    <2>2. q.names \in SUBSET Names /\ q.life \in Nat /\ q.own \in BOOLEAN
      BY <1>1 DEF Handlers
    <2>3. /\ old.names \in SUBSET Names /\ old.checked \in BOOLEAN
          /\ old.key \in CertificateIds \cup {None}
      BY <1>1, CertificatesTyped
    <2>4. names \in SUBSET Names /\ key \in CertificateIds \cup {None}
      BY <2>2, <2>3 DEF CertificateIds
    <2>5. (same /\ old.checked) \in BOOLEAN
      BY <2>3, Zenon
    <2>6. row \in CertificateRows
      <3> HIDE DEF key, names, same
      <3> QED
        BY <1>1, <2>2, <2>4, <2>5, NewCertTyped
    <2>7. /\ row.authority = q.ca /\ row.signer = q.seenCA.cert.serial
          /\ row.names = names /\ row.checked = (same /\ old.checked) /\ row.downloads = 0
      BY DEF CertificateRow
    <2>8. CheckedNames(row) \ Unchecked \subseteq q.seenCA.permits \/ CheckedNames(row) = CheckedNames(old)
      BY <2>7 DEF CheckedNames
    <2>9. row.until <= q.seenCA.cert.until
      BY <1>2 DEF CanSign
    <2>10. AddsRow(r, Done)
      <3> HIDE DEF row
      <3> QED
        BY <1>1, <1>2, <2>1, <2>6, <2>7, <2>8, <2>9 DEF AddsRow
    <2> QED
      BY <2>1, <2>10, StopMoves DEF Does
  <1>3. CASE ~(CanSign(q.seenCA.cert, row.until, FALSE) /\ q.ca \in KeptCAs)
    <2>1. UNCHANGED tables /\ Stop(r)
      BY <1>3 DEF Renew, tables
    <2> QED
      BY <2>1, StopMoves, StopLooks
  <1> QED
    BY <1>2, <1>3

LEMMA CertReadMoves ==
    ASSUME TypeInv, NEW r \in Requests, EditRead(r) \/ DownloadRead(r) PROVE Moves(r)
  <1>1. PICK c \in KeptCerts, step \in {"saveCertificate", "download"} :
           Set(r, [Idle EXCEPT !.step = step, !.cert = c, !.seenCert = certificates[c]])
    BY DEF EditRead, DownloadRead
  <1> DEFINE q == [Idle EXCEPT !.step = step, !.cert = c, !.seenCert = certificates[c]]
  <1>2. c \in CertificateIds /\ certificates[c].kept /\ certificates[c] \in CertificateRows
    BY TablesTyped DEF KeptCerts
  <1>3. /\ q.step = step /\ q.cert = c /\ q.seenCert = certificates[c]
        /\ q.seenCA = NoRow /\ q.seenParent = NoRow
    BY DEF Idle
  <1>4. q \in Handlers
    BY <1>2 DEF Idle, Handlers, Steps
  <1>5. Ready(q)
    BY <1>2, <1>3 DEF Ready, CASteps, DeleteSteps, CertSteps
  <1>6. Looks(r, q)
    BY <1>3, Copied, RowsKept DEF Looks, EditRead, DownloadRead
  <1> QED
    BY <1>1, <1>4, <1>5, <1>6, ReadMoves

LEMMA SaveCertificateMoves == ASSUME TypeInv, NEW r \in Requests, SaveCertificate(r) PROVE Moves(r)
  <1> DEFINE row == request[r].seenCert
  <1>1. row.kept /\ row \in CertificateRows /\ request[r].cert \in CertificateIds
    BY TablesTyped DEF SaveCertificate, At, Ready, CertSteps
  <1>2. CASE row.authority \in KeptCAs
    <2>1. SavesRow(r, Done)
      BY <1>1, <1>2, Copied, CertificatesTyped DEF SaveCertificate, SavesRow
    <2> QED
      BY <2>1, StopMoves DEF SaveCertificate, Does
  <1>3. CASE row.authority \notin KeptCAs
    <2>1. UNCHANGED tables
      BY <1>3 DEF SaveCertificate, tables
    <2> QED
      BY <2>1, StopMoves, StopLooks DEF SaveCertificate
  <1> QED
    BY <1>2, <1>3

LEMMA DeleteCertificateMoves ==
    ASSUME TypeInv, NEW r \in Requests, DeleteCertificateRead(r) \/ DeleteCertificate(r) PROVE Moves(r)
  <1>1. CASE DeleteCertificateRead(r)
    <2>1. PICK c \in KeptCerts : Set(r, [Idle EXCEPT !.step = "deleteCertificate", !.cert = c])
      BY <1>1 DEF DeleteCertificateRead
    <2> DEFINE q == [Idle EXCEPT !.step = "deleteCertificate", !.cert = c]
    <2>2. /\ q.step = "deleteCertificate" /\ q.cert = c /\ c \in CertificateIds
          /\ q.seenCA = NoRow /\ q.seenParent = NoRow /\ q.seenCert = NoRow
      BY DEF Idle, KeptCerts
    <2>3. q \in Handlers
      BY <2>2 DEF Idle, Handlers, Steps
    <2>4. Ready(q)
      BY <2>2 DEF Ready, CASteps, DeleteSteps, CertSteps
    <2>5. Looks(r, q)
      BY <1>1, <2>2, RowsKept DEF Looks, DeleteCertificateRead
    <2> QED
      BY <2>1, <2>3, <2>4, <2>5, ReadMoves
  <1>2. CASE DeleteCertificate(r)
    <2>1. request[r].cert \in CertificateIds
      BY <1>2, TablesTyped DEF DeleteCertificate, At, Ready
    <2>2. DropsRow(r, Done)
      BY <1>2, <2>1 DEF DeleteCertificate, DropsRow
    <2> QED
      BY <1>2, <2>2, StopMoves DEF DeleteCertificate, Does
  <1> QED
    BY <1>1, <1>2

LEMMA DownloadMoves == ASSUME TypeInv, NEW r \in Requests, Download(r) PROVE Moves(r)
  <1> DEFINE c == request[r].cert  n == request[r].seenCert.downloads + 1
  <1>1. CASE c \in KeptCerts
    <2>1. request[r].seenCert \in CertificateRows
      BY TablesTyped DEF Download, At, Ready, CertSteps
    <2>2. n \in Nat
      BY <2>1, CertificatesTyped
    <2>3. c \in CertificateIds /\ certificates[c] \in CertificateRows /\ certificates[c] \in RowsOf(c)
      BY <1>1, TablesTyped, Copied DEF KeptCerts
    <2>4. SaveCert(c, [certificates[c] EXCEPT !.downloads = n])
      BY <1>1 DEF Download
    <2>5. SavesRow(r, Done)
      <3> HIDE DEF n
      <3> QED
        BY <1>1, <2>2, <2>3, <2>4, CertificatesTyped DEF SavesRow, Download
    <2> QED
      BY <2>5, StopMoves DEF Download, Does
  <1>2. CASE c \notin KeptCerts
    <2>1. UNCHANGED tables
      BY <1>2 DEF Download, tables
    <2> QED
      BY <2>1, StopMoves, StopLooks DEF Download
  <1> QED
    BY <1>1, <1>2

\* Every step of a request is one of the eight.
LEMMA StepMoves == ASSUME TypeInv, NEW r \in Requests, Step(r) PROVE Moves(r)
  <1>1. CASE Fail(r)
    BY <1>1, StopMoves, StopLooks DEF Fail
  <1> QED
    BY <1>1, CreateRootMoves, CreateReadMoves, ImportReadMoves, InsertAuthorityMoves, UpdateReadMoves,
       SaveAuthorityMoves, DeleteReadMoves, CountMoves, DeleteMoves, RenewAuthorityReadMoves,
       RenewParentReadMoves, RenewAuthorityMoves, IssueReadMoves, IssueMoves, RenewReadMoves,
       RenewCAMoves, RenewMoves, CertReadMoves, SaveCertificateMoves, DeleteCertificateMoves,
       DownloadMoves
    DEF Step

-----------------------------------------------------------------------------
(* Types                                                                   *)

LEMMA MovesTyped ==
    ASSUME TypeInv, NEW r \in Requests, Moves(r)
    PROVE  /\ request' \in [Requests -> Handlers] /\ \A s \in Requests : Ready(request'[s])
           /\ authorities' \in [AuthorityIds -> AuthorityRows \cup {NoRow}]
           /\ certificates' \in [CertificateIds -> CertificateRows \cup {NoRow}]
  <1>t. /\ request \in [Requests -> Handlers] /\ \A s \in Requests : Ready(request[s])
        /\ authorities \in [AuthorityIds -> AuthorityRows \cup {NoRow}]
        /\ certificates \in [CertificateIds -> CertificateRows \cup {NoRow}]
    BY DEF TypeInv, TypeOK
  <1>1. PICK q \in Handlers : Set(r, q) /\ Ready(q) /\ Does(r, q)
    BY DEF Moves
  <1>2. request' \in [Requests -> Handlers] /\ \A s \in Requests : Ready(request'[s])
    BY <1>t, <1>1 DEF Set
  <1>3. authorities' \in [AuthorityIds -> AuthorityRows \cup {NoRow}]
    <2>1. CASE AddsCA(r, q)
      BY <1>t, <2>1 DEF AddsCA, SaveCA
    <2>2. CASE SavesCA(r, q)
      <3>1. request[r].seenCA \in AuthorityRows
        BY <2>2, TablesTyped DEF SavesCA, Ready
      <3> QED
        BY <1>t, <2>2, <3>1 DEF SavesCA, SaveCA
    <2>3. CASE RenewsCA(r, q)
      <3>1. PICK cert \in CACerts : SaveCA(request[r].ca, [request[r].seenCA EXCEPT !.cert = cert])
        BY <2>3 DEF RenewsCA
      <3>2. request[r].seenCA \in AuthorityRows
        BY <2>3, TablesTyped DEF RenewsCA, Ready, CASteps
      <3>3. [request[r].seenCA EXCEPT !.cert = cert] \in AuthorityRows
        BY <3>2 DEF AuthorityRows
      <3> QED
        BY <1>t, <3>1, <3>3 DEF SaveCA
    <2>4. CASE DropsCA(r, q)
      BY <1>t, <2>4 DEF DropsCA
    <2> QED
      BY <1>1, <1>t, <2>1, <2>2, <2>3, <2>4 DEF Does, Looks, AddsRow, SavesRow, DropsRow, tables
  <1>4. certificates' \in [CertificateIds -> CertificateRows \cup {NoRow}]
    <2>1. CASE AddsRow(r, q)
      BY <1>t, <2>1 DEF AddsRow, SaveCert
    <2>2. CASE SavesRow(r, q)
      BY <1>t, <2>2 DEF SavesRow, SaveCert
    <2>3. CASE DropsRow(r, q)
      BY <1>t, <2>3 DEF DropsRow, SaveCert
    <2>4. CASE DropsCA(r, q)
      BY <1>t, <2>4 DEF DropsCA
    <2> QED
      BY <1>1, <1>t, <2>1, <2>2, <2>3, <2>4 DEF Does, Looks, AddsCA, SavesCA, RenewsCA, tables
  <1> QED
    BY <1>2, <1>3, <1>4

\* The clock stands during a step of a request, and the histories keep their types.
LEMMA HistoriesTyped ==
    ASSUME TypeInv, NEW r \in Requests, Step(r)
    PROVE  now' = now /\ handed' \in [CertificateIds -> Nat] /\ raced' \in SUBSET CertificateIds
  <1>t. handed \in [CertificateIds -> Nat] /\ raced \in SUBSET CertificateIds
    BY DEF TypeInv, TypeOK
  <1>1. CASE Download(r)
    BY <1>t, <1>1 DEF Download
  <1>2. CASE EditRead(r) \/ DownloadRead(r)
    <2>1. handed' = handed /\ now' = now
      BY <1>2 DEF EditRead, DownloadRead
    <2>2. raced' \in SUBSET CertificateIds
      BY <1>t, <1>2 DEF EditRead, DownloadRead, Reads, KeptCerts
    <2> QED
      BY <1>t, <2>1, <2>2
  <1>3. CASE UNCHANGED <<now, handed, raced>>
    BY <1>t, <1>3
  <1> QED
    BY <1>1, <1>2, <1>3
       DEF Step, CreateRoot, CreateRead, ImportRead, InsertAuthority, UpdateRead, SaveAuthority,
           DeleteRead, CountCertificates, CountChildren, Delete, RenewAuthorityRead, RenewParentRead,
           RenewAuthority, IssueRead, Issue, RenewRead, RenewCA, Renew, SaveCertificate,
           DeleteCertificateRead, DeleteCertificate, Fail

LEMMA InitTyped == Init => TypeInv
  <1> SUFFICES ASSUME Init PROVE TypeInv
    OBVIOUS
  <1>1. authorities \in [AuthorityIds -> AuthorityRows \cup {NoRow}]
    BY AuthoritiesAssumption DEF Init
  <1>2. certificates \in [CertificateIds -> CertificateRows \cup {NoRow}]
    BY AuthoritiesAssumption DEF Init
  <1>3. now \in 0 .. MaxNow
    BY AuthoritiesAssumption DEF Init
  <1>4. request \in [Requests -> Handlers] /\ \A r \in Requests : Ready(request[r])
    BY IdleTyped DEF Init
  <1>5. handed \in [CertificateIds -> Nat] /\ raced \in SUBSET CertificateIds
    BY DEF Init
  <1> QED
    BY <1>1, <1>2, <1>3, <1>4, <1>5 DEF TypeInv, TypeOK

LEMMA NextTyped == TypeInv /\ [Next]_vars => TypeInv'
  <1> SUFFICES ASSUME TypeInv, [Next]_vars PROVE TypeInv'
    OBVIOUS
  <1>1. ASSUME NEW r \in Requests, Step(r) PROVE TypeInv'
    <2>1. now' \in 0 .. MaxNow
      BY <1>1, HistoriesTyped DEF TypeInv, TypeOK
    <2> QED
      BY <1>1, <2>1, StepMoves, MovesTyped, HistoriesTyped DEF TypeInv, TypeOK
  <1>2. CASE Tick
    <2>1. now' \in 0 .. MaxNow
      BY <1>2, AuthoritiesAssumption DEF Tick, TypeInv, TypeOK
    <2> QED
      BY <1>2, <2>1 DEF Tick, TypeInv, TypeOK, tables
  <1>3. CASE UNCHANGED vars
    BY <1>3 DEF vars, tables, TypeInv, TypeOK
  <1> QED
    BY <1>1, <1>2, <1>3 DEF Next

LEMMA TypeAlways == Spec => []TypeInv
  BY InitTyped, NextTyped, PTL DEF Spec

\* Whatever requests interleave, stop or save late, the rows of both tables are
\* whole, no root hangs from another authority, and no history is lost.
THEOREM AuthoritiesTypeCorrect == Spec => []TypeOK
  <1>1. TypeInv => TypeOK
    BY DEF TypeInv
  <1> QED
    BY <1>1, TypeAlways, PTL

-----------------------------------------------------------------------------
(* How the copies grow                                                     *)

CopiesGrow(a, new) == \A b : CopiesOf(b)' \subseteq CopiesOf(b) \cup (IF b = a THEN new ELSE {})
RowsGrow(c, new)   == \A d : RowsOf(d)' \subseteq RowsOf(d) \cup (IF d = c THEN new ELSE {})
CertsGrow(new)     == SeenCACerts' \subseteq SeenCACerts \cup new

LEMMA CopiesSet ==
    ASSUME TypeInv, NEW r \in Requests, NEW q \in Handlers, Set(r, q), NEW a, NEW new,
           \A b \in KeptCAs' : authorities'[b] \in CopiesOf(b) \/ (b = a /\ authorities'[b] \in new),
           q.seenCA.kept => q.seenCA \in CopiesOf(q.ca) \/ (q.ca = a /\ q.seenCA \in new)
    PROVE  CopiesGrow(a, new)
  <1>1. \A s \in Requests : request'[s] = IF s = r THEN q ELSE request[s]
    BY DEF Set, TypeInv, TypeOK
  <1> SUFFICES ASSUME NEW b, NEW x \in CopiesOf(b)'
               PROVE  x \in CopiesOf(b) \/ (b = a /\ x \in new)
    BY DEF CopiesGrow
  <1>2. CASE b \in KeptCAs' /\ x = authorities'[b]
    BY <1>2
  <1>3. ASSUME NEW s \in Requests, request'[s].ca = b, request'[s].seenCA.kept, x = request'[s].seenCA
        PROVE  x \in CopiesOf(b) \/ (b = a /\ x \in new)
    BY <1>1, <1>3, Copied
  <1>4. \/ b \in KeptCAs' /\ x = authorities'[b]
        \/ \E s \in Requests : request'[s].ca = b /\ request'[s].seenCA.kept /\ x = request'[s].seenCA
    BY DEF CopiesOf
  <1> QED
    BY <1>2, <1>3, <1>4

LEMMA RowsSet ==
    ASSUME TypeInv, NEW r \in Requests, NEW q \in Handlers, Set(r, q), NEW c, NEW new,
           \A d \in KeptCerts' : certificates'[d] \in RowsOf(d) \/ (d = c /\ certificates'[d] \in new),
           q.seenCert.kept => q.seenCert \in RowsOf(q.cert) \/ (q.cert = c /\ q.seenCert \in new)
    PROVE  RowsGrow(c, new)
  <1>1. \A s \in Requests : request'[s] = IF s = r THEN q ELSE request[s]
    BY DEF Set, TypeInv, TypeOK
  <1> SUFFICES ASSUME NEW d, NEW x \in RowsOf(d)'
               PROVE  x \in RowsOf(d) \/ (d = c /\ x \in new)
    BY DEF RowsGrow
  <1>2. CASE d \in KeptCerts' /\ x = certificates'[d]
    BY <1>2
  <1>3. ASSUME NEW s \in Requests, request'[s].cert = d, request'[s].seenCert.kept, x = request'[s].seenCert
        PROVE  x \in RowsOf(d) \/ (d = c /\ x \in new)
    BY <1>1, <1>3, Copied
  <1>4. \/ d \in KeptCerts' /\ x = certificates'[d]
        \/ \E s \in Requests : request'[s].cert = d /\ request'[s].seenCert.kept /\ x = request'[s].seenCert
    BY DEF RowsOf
  <1> QED
    BY <1>2, <1>3, <1>4

LEMMA CertsSet ==
    ASSUME TypeInv, NEW r \in Requests, NEW q \in Handlers, Set(r, q), NEW new,
           \A b \in KeptCAs' : authorities'[b].cert \in SeenCACerts \cup new,
           q.seenCA.kept => q.seenCA.cert \in SeenCACerts \cup new,
           q.seenParent.kept => q.seenParent.cert \in SeenCACerts \cup new
    PROVE  CertsGrow(new)
  <1>1. \A s \in Requests : request'[s] = IF s = r THEN q ELSE request[s]
    BY DEF Set, TypeInv, TypeOK
  <1> SUFFICES ASSUME NEW x \in SeenCACerts' PROVE x \in SeenCACerts \cup new
    BY DEF CertsGrow
  <1>2. ASSUME NEW s \in Requests,
               \/ request'[s].seenCA.kept /\ x = request'[s].seenCA.cert
               \/ request'[s].seenParent.kept /\ x = request'[s].seenParent.cert
        PROVE  x \in SeenCACerts \cup new
    BY <1>1, <1>2, Copied
  <1>3. \/ \E b \in KeptCAs' : x = authorities'[b].cert
        \/ \E s \in Requests :
              \/ request'[s].seenCA.kept /\ x = request'[s].seenCA.cert
              \/ request'[s].seenParent.kept /\ x = request'[s].seenParent.cert
        \/ \E f \in DOMAIN Foreign : x = ForeignCert(f)
    BY DEF SeenCACerts, ForeignCert
  <1>4. \A f \in DOMAIN Foreign : ForeignCert(f) \in SeenCACerts
    BY DEF SeenCACerts
  <1> QED
    BY <1>2, <1>3, <1>4

LEMMA CopyCerts == \A a : \A x \in CopiesOf(a) : x.cert \in SeenCACerts
  BY Copied DEF CopiesOf, SeenCACerts, KeptCAs

LEMMA DoneHolds == ~Done.seenCA.kept /\ ~Done.seenParent.kept /\ ~Done.seenCert.kept /\ Done.step = "done"
  BY RowsKept DEF Done, Idle

LEMMA CertTyped == ASSUME TypeInv PROVE \A x \in SeenCACerts : x \in CACerts /\ x.serial \in Serials
  <1>1. \A f \in DOMAIN Foreign : ForeignCert(f) \in CACerts
    <2>1. \A f \in DOMAIN Foreign : Foreign[f] \in ForeignCerts /\ f \in Serials
      BY AuthoritiesAssumption DEF Serials
    <2> QED
      BY <2>1 DEF CACerts, ForeignCert, ForeignCerts
  <1>2. \A x \in SeenCACerts : x \in CACerts
    BY <1>1, TablesTyped, SerialsTyped DEF SeenCACerts, KeptCAs
  <1> QED
    BY <1>2 DEF CACerts

LEMMA LooksGrow ==
    ASSUME TypeInv, NEW r \in Requests, NEW q \in Handlers, Set(r, q), Looks(r, q)
    PROVE  CopiesGrow(None, {}) /\ RowsGrow(None, {}) /\ CertsGrow({})
  <1>1. KeptCAs' = KeptCAs /\ KeptCerts' = KeptCerts /\ UNCHANGED tables
    BY DEF Looks, tables, KeptCAs, KeptCerts
  <1>2. CopiesGrow(None, {})
    BY <1>1, Copied, CopiesSet DEF Looks, tables
  <1>3. RowsGrow(None, {})
    BY <1>1, Copied, RowsSet DEF Looks, tables
  <1>4. CertsGrow({})
    BY <1>1, Copied, CopyCerts, CertsSet DEF Looks, tables
  <1> QED
    BY <1>2, <1>3, <1>4

\* A row of an authority is written.
LEMMA SaveCAGrows ==
    ASSUME TypeInv, NEW r \in Requests, NEW q \in Handlers, Set(r, q),
           NEW a \in AuthorityIds, NEW row \in AuthorityRows, SaveCA(a, row), UNCHANGED certificates,
           q = Done \/ q = [Idle EXCEPT !.step = "urls", !.ca = a, !.seenCA = row]
    PROVE  /\ CopiesGrow(a, {row}) /\ RowsGrow(None, {}) /\ CertsGrow({row.cert})
           /\ row \in CopiesOf(a) => CopiesGrow(None, {}) /\ CertsGrow({})
           /\ KeptCAs' = KeptCAs \cup {a} /\ KeptCerts' = KeptCerts
           /\ \A b \in AuthorityIds : authorities'[b] = IF b = a THEN row ELSE authorities[b]
  <1>1. \A b \in AuthorityIds : authorities'[b] = IF b = a THEN row ELSE authorities[b]
    BY DEF SaveCA, TypeInv, TypeOK
  <1>2. KeptCAs' = KeptCAs \cup {a} /\ KeptCerts' = KeptCerts
    BY <1>1, RowsKept DEF KeptCAs, KeptCerts
  <1>3. /\ q.seenCA.kept => q.ca = a /\ q.seenCA = row
        /\ ~q.seenParent.kept /\ ~q.seenCert.kept
    BY DoneHolds, RowsKept DEF Idle
  <1>4. CopiesGrow(a, {row})
    BY <1>1, <1>2, <1>3, Copied, CopiesSet DEF KeptCAs
  <1>5. RowsGrow(None, {})
    BY <1>2, <1>3, Copied, RowsSet
  <1>6. CertsGrow({row.cert})
    BY <1>1, <1>2, <1>3, Copied, CertsSet DEF KeptCAs
  <1>7. ASSUME row \in CopiesOf(a) PROVE CopiesGrow(None, {}) /\ CertsGrow({})
    BY <1>4, <1>6, <1>7, CopyCerts DEF CopiesGrow, CertsGrow
  <1> QED
    BY <1>1, <1>2, <1>4, <1>5, <1>6, <1>7

\* A renewal changes nothing but the certificate of a copy.
LEMMA RenewsCAGrows ==
    ASSUME TypeInv, NEW r \in Requests, NEW q \in Handlers, Set(r, q), RenewsCA(r, q)
    PROVE  \E a \in AuthorityIds, row \in AuthorityRows : \E old \in CopiesOf(a) :
              /\ row.parent = old.parent /\ row.permits = old.permits
              /\ row.parent \in KeptCAs \cup {None}
              /\ Signed(r, row.cert) /\ row.cert.permits = Names
              /\ SaveCA(a, row)
              /\ CopiesGrow(a, {row}) /\ RowsGrow(None, {}) /\ CertsGrow({row.cert})
  <1> DEFINE a == request[r].ca  old == request[r].seenCA
  <1>1. PICK cert \in CACerts :
           SaveCA(a, [old EXCEPT !.cert = cert]) /\ Signed(r, cert) /\ cert.permits = Names
    BY DEF RenewsCA
  <1> DEFINE row == [old EXCEPT !.cert = cert]
  <1>2. a \in AuthorityIds /\ old \in AuthorityRows /\ old \in CopiesOf(a)
    BY TablesTyped, Copied DEF RenewsCA, Ready, CASteps
  <1>3. row \in AuthorityRows /\ row.parent = old.parent /\ row.permits = old.permits /\ row.cert = cert
    BY <1>2 DEF AuthorityRows
  <1>4. row.parent \in KeptCAs \cup {None}
    BY <1>3 DEF RenewsCA, Refers
  <1> HIDE DEF row
  <1>5. SaveCA(a, row) /\ UNCHANGED certificates /\ q = Done
    BY <1>1 DEF row, RenewsCA
  <1>6. CopiesGrow(a, {row}) /\ RowsGrow(None, {}) /\ CertsGrow({row.cert})
    BY <1>2, <1>3, <1>5, SaveCAGrows
  <1> QED
    BY <1>1, <1>2, <1>3, <1>4, <1>5, <1>6

\* A row of a certificate is written.
LEMMA SaveCertGrows ==
    ASSUME TypeInv, NEW r \in Requests, Set(r, Done),
           NEW c \in CertificateIds, NEW row \in CertificateRows, SaveCert(c, row), UNCHANGED authorities
    PROVE  /\ CopiesGrow(None, {}) /\ RowsGrow(c, {row}) /\ CertsGrow({})
           /\ KeptCAs' = KeptCAs /\ KeptCerts' = KeptCerts \cup {c}
           /\ \A d \in CertificateIds : certificates'[d] = IF d = c THEN row ELSE certificates[d]
  <1>1. \A d \in CertificateIds : certificates'[d] = IF d = c THEN row ELSE certificates[d]
    BY DEF SaveCert, TypeInv, TypeOK
  <1>2. KeptCAs' = KeptCAs /\ KeptCerts' = KeptCerts \cup {c}
    BY <1>1, RowsKept DEF KeptCAs, KeptCerts
  <1>3. CopiesGrow(None, {})
    BY <1>2, IdleTyped, DoneHolds, Copied, CopiesSet
  <1>4. RowsGrow(c, {row})
    BY <1>1, <1>2, IdleTyped, DoneHolds, Copied, RowsSet DEF KeptCerts
  <1>5. CertsGrow({})
    BY <1>2, IdleTyped, DoneHolds, Copied, CertsSet
  <1> QED
    BY <1>1, <1>2, <1>3, <1>4, <1>5

\* Rows go.
LEMMA DropGrows ==
    ASSUME TypeInv, NEW r \in Requests, NEW q \in Handlers, Set(r, q), DropsCA(r, q) \/ DropsRow(r, q)
    PROVE  CopiesGrow(None, {}) /\ RowsGrow(None, {}) /\ CertsGrow({})
  <1>1. /\ \A a \in AuthorityIds : authorities'[a] \in {authorities[a], NoRow}
        /\ \A c \in CertificateIds : certificates'[c] \in {certificates[c], NoRow}
    BY DEF DropsCA, DropsRow, SaveCert, TypeInv, TypeOK
  <1>2. /\ \A a \in KeptCAs' : a \in KeptCAs /\ authorities'[a] = authorities[a]
        /\ \A c \in KeptCerts' : c \in KeptCerts /\ certificates'[c] = certificates[c]
    BY <1>1, RowsKept DEF KeptCAs, KeptCerts
  <1>3. q = Done
    BY DEF DropsCA, DropsRow
  <1>4. CopiesGrow(None, {})
    BY <1>2, <1>3, DoneHolds, Copied, CopiesSet
  <1>5. RowsGrow(None, {})
    BY <1>2, <1>3, DoneHolds, Copied, RowsSet
  <1>6. CertsGrow({})
    BY <1>2, <1>3, DoneHolds, Copied, CertsSet
  <1> QED
    BY <1>4, <1>5, <1>6

-----------------------------------------------------------------------------
(* The tree                                                                *)

LEMMA FreshGrows ==
    ASSUME TypeInv, FreshInv, NEW r \in Requests, NEW q \in Handlers, Set(r, q),
           NEW a, NEW N, CopiesGrow(a, N), a = r \/ CopiesOf(a) # {} \/ N = {},
           NEW c, NEW M, RowsGrow(c, M), c = r \/ RowsOf(c) # {} \/ M = {},
           q.step \in {"idle", "insertAuthority"} => CopiesOf(r)' = {},
           q.step \in {"idle", "issue", "renewCA", "renew"} => RowsOf(r)' = {}
    PROVE  FreshInv'
  <1>1. \A s \in Requests : request'[s] = IF s = r THEN q ELSE request[s]
    BY DEF Set, TypeInv, TypeOK
  <1>2. ASSUME NEW s \in Requests, s # r
        PROVE  /\ CopiesOf(s) = {} => CopiesOf(s)' = {}
               /\ RowsOf(s) = {} => RowsOf(s)' = {}
    BY <1>2 DEF CopiesGrow, RowsGrow
  <1> QED
    BY <1>1, <1>2 DEF FreshInv, Unissued

LEMMA FreshStep ==
    ASSUME TypeInv, FreshInv, NEW r \in Requests, NEW q \in Handlers, Set(r, q), Does(r, q)
    PROVE  FreshInv'
  <1>1. CASE Looks(r, q)
    <2>1. CopiesGrow(None, {}) /\ RowsGrow(None, {})
      BY <1>1, LooksGrow
    <2>2. q.step \in {"idle", "insertAuthority"} => CopiesOf(r)' = {}
      BY <1>1, <2>1 DEF Looks, FreshInv, CopiesGrow
    <2>3. q.step \in {"idle", "issue", "renewCA", "renew"} => RowsOf(r)' = {}
      BY <1>1, <2>1 DEF Looks, FreshInv, RowsGrow, Unissued
    <2> QED
      BY <2>1, <2>2, <2>3, FreshGrows
  <1>2. CASE AddsCA(r, q)
    <2>1. PICK row \in AuthorityRows :
             SaveCA(r, row) /\ q = [Idle EXCEPT !.step = "urls", !.ca = r, !.seenCA = row]
      BY <1>2 DEF AddsCA
    <2>2. CopiesGrow(r, {row}) /\ RowsGrow(None, {})
      BY <1>2, <2>1, SaveCAGrows DEF AddsCA, AuthorityIds
    <2>3. q.step = "urls"
      BY <2>1 DEF Idle
    <2> QED
      BY <2>2, <2>3, FreshGrows
  <1>3. CASE SavesCA(r, q)
    <2> DEFINE a == request[r].ca  row == request[r].seenCA
    <2>1. a \in AuthorityIds /\ row \in AuthorityRows /\ row \in CopiesOf(a)
      BY <1>3, TablesTyped, Copied DEF SavesCA, Ready
    <2>2. SaveCA(a, row) /\ q = Done /\ UNCHANGED certificates
      BY <1>3 DEF SavesCA
    <2>3. CopiesGrow(None, {}) /\ RowsGrow(None, {})
      <3> HIDE DEF a, row
      <3> QED
        BY <2>1, <2>2, SaveCAGrows
    <2> QED
      BY <1>3, <2>3, DoneHolds, FreshGrows DEF SavesCA
  <1>4. CASE RenewsCA(r, q)
    <2>1. PICK a \in AuthorityIds, row \in AuthorityRows :
             CopiesOf(a) # {} /\ CopiesGrow(a, {row}) /\ RowsGrow(None, {})
      BY <1>4, RenewsCAGrows
    <2> QED
      BY <1>4, <2>1, DoneHolds, FreshGrows DEF RenewsCA
  <1>5. CASE DropsCA(r, q) \/ DropsRow(r, q)
    <2>1. CopiesGrow(None, {}) /\ RowsGrow(None, {}) /\ q = Done
      BY <1>5, DropGrows DEF DropsCA, DropsRow
    <2> QED
      BY <2>1, DoneHolds, FreshGrows
  <1>6. CASE AddsRow(r, q)
    <2>1. PICK row \in CertificateRows : SaveCert(r, row)
      BY <1>6 DEF AddsRow
    <2>2. CopiesGrow(None, {}) /\ RowsGrow(r, {row}) /\ q = Done
      BY <1>6, <2>1, SaveCertGrows DEF AddsRow, CertificateIds
    <2> QED
      BY <2>2, DoneHolds, FreshGrows
  <1>7. CASE SavesRow(r, q)
    <2>1. PICK c \in CertificateIds : \E row \in CertificateRows, old \in RowsOf(c) : SaveCert(c, row)
      BY <1>7 DEF SavesRow
    <2>2. PICK row \in CertificateRows : SaveCert(c, row)
      BY <2>1
    <2>3. CopiesGrow(None, {}) /\ RowsGrow(c, {row}) /\ q = Done
      BY <1>7, <2>2, SaveCertGrows DEF SavesRow
    <2> QED
      BY <2>1, <2>3, DoneHolds, FreshGrows
  <1> QED
    BY <1>1, <1>2, <1>3, <1>4, <1>5, <1>6, <1>7 DEF Does

\* The two halves of TreeInv.
Hangs ==
    /\ \A a \in KeptCAs : authorities[a].parent \in KeptCAs \cup {None}
    /\ \A c \in KeptCerts : certificates[c].authority \in KeptCAs
Agrees ==
    /\ \A a \in AuthorityIds : \A x, y \in CopiesOf(a) : x.parent = y.parent /\ x.permits = y.permits
    /\ \A c \in CertificateIds : \A x, y \in RowsOf(c) : x.authority = y.authority

LEMMA AgreesGrows ==
    ASSUME Agrees, NEW a, NEW N, CopiesGrow(a, N), NEW c, NEW M, RowsGrow(c, M),
           \A x \in N : /\ \A y \in CopiesOf(a) : x.parent = y.parent /\ x.permits = y.permits
                        /\ \A y \in N : x = y,
           \A x \in M : /\ \A y \in RowsOf(c) : x.authority = y.authority
                        /\ \A y \in M : x = y
    PROVE  Agrees'
  <1>1. ASSUME NEW b \in AuthorityIds, NEW x \in CopiesOf(b)', NEW y \in CopiesOf(b)'
        PROVE  x.parent = y.parent /\ x.permits = y.permits
    <2>1. CASE b = a
      <3>1. x \in CopiesOf(a) \cup N /\ y \in CopiesOf(a) \cup N
        BY <2>1 DEF CopiesGrow
      <3> QED
        BY <2>1, <3>1 DEF Agrees
    <2>2. CASE b # a
      BY <2>2 DEF CopiesGrow, Agrees
    <2> QED
      BY <2>1, <2>2
  <1>2. ASSUME NEW d \in CertificateIds, NEW x \in RowsOf(d)', NEW y \in RowsOf(d)'
        PROVE  x.authority = y.authority
    <2>1. CASE d = c
      <3>1. x \in RowsOf(c) \cup M /\ y \in RowsOf(c) \cup M
        BY <2>1 DEF RowsGrow
      <3> QED
        BY <2>1, <3>1 DEF Agrees
    <2>2. CASE d # c
      BY <2>2 DEF RowsGrow, Agrees
    <2> QED
      BY <2>1, <2>2
  <1> QED
    BY <1>1, <1>2 DEF Agrees

LEMMA TreeStep ==
    ASSUME TypeInv, FreshInv, TreeInv, NEW r \in Requests, NEW q \in Handlers, Set(r, q), Does(r, q)
    PROVE  TreeInv'
  <1>h. Hangs /\ Agrees
    BY DEF TreeInv, Hangs, Agrees
  <1> SUFFICES Hangs' /\ Agrees'
    BY DEF TreeInv, Hangs, Agrees
  <1>s. ASSUME CopiesGrow(None, {}), RowsGrow(None, {}) PROVE Agrees'
    BY <1>h, <1>s, AgreesGrows
  \* A row of an authority that hangs from another which is there.
  <1>a. ASSUME NEW a \in AuthorityIds, NEW row \in AuthorityRows, SaveCA(a, row),
               row.parent \in KeptCAs \cup {None}, UNCHANGED certificates
        PROVE  Hangs'
    <2>1. \A b \in AuthorityIds : authorities'[b] = IF b = a THEN row ELSE authorities[b]
      BY <1>a DEF SaveCA, TypeInv, TypeOK
    <2>2. KeptCAs' = KeptCAs \cup {a} /\ KeptCerts' = KeptCerts
      BY <1>a, <2>1, RowsKept DEF KeptCAs, KeptCerts
    <2>3. \A b \in KeptCAs' : authorities'[b].parent \in KeptCAs' \cup {None}
      BY <1>a, <1>h, <2>1, <2>2 DEF Hangs, KeptCAs
    <2> QED
      BY <1>a, <1>h, <2>2, <2>3 DEF Hangs
  <1>1. CASE Looks(r, q)
    <2>1. Hangs'
      BY <1>1, <1>h DEF Looks, tables, Hangs, KeptCAs, KeptCerts
    <2> QED
      BY <1>1, <1>s, <2>1, LooksGrow
  <1>2. CASE AddsCA(r, q)
    <2>1. PICK row \in AuthorityRows :
             /\ SaveCA(r, row) /\ Refers(row)
             /\ q = [Idle EXCEPT !.step = "urls", !.ca = r, !.seenCA = row]
      BY <1>2 DEF AddsCA
    <2>2. CopiesOf(r) = {} /\ r \in AuthorityIds /\ UNCHANGED certificates
      BY <1>2 DEF AddsCA, FreshInv, AuthorityIds
    <2>3. CopiesGrow(r, {row}) /\ RowsGrow(None, {})
      BY <2>1, <2>2, SaveCAGrows
    <2>4. Agrees'
      BY <1>h, <2>2, <2>3, AgreesGrows
    <2> QED
      BY <1>a, <2>1, <2>2, <2>4 DEF Refers
  <1>3. CASE SavesCA(r, q)
    <2> DEFINE a == request[r].ca  row == request[r].seenCA
    <2>1. a \in AuthorityIds /\ row \in AuthorityRows /\ row \in CopiesOf(a)
      BY <1>3, TablesTyped, Copied DEF SavesCA, Ready
    <2>2. SaveCA(a, row) /\ q = Done /\ UNCHANGED certificates
      BY <1>3 DEF SavesCA
    <2>3. CopiesGrow(None, {}) /\ RowsGrow(None, {})
      <3> HIDE DEF a, row
      <3> QED
        BY <2>1, <2>2, SaveCAGrows
    <2> QED
      BY <1>3, <1>a, <1>s, <2>1, <2>3 DEF SavesCA, Refers
  <1>4. CASE RenewsCA(r, q)
    <2>1. PICK a \in AuthorityIds, row \in AuthorityRows : \E old \in CopiesOf(a) :
             /\ row.parent = old.parent /\ row.permits = old.permits
             /\ row.parent \in KeptCAs \cup {None} /\ SaveCA(a, row)
             /\ CopiesGrow(a, {row}) /\ RowsGrow(None, {})
      BY <1>4, RenewsCAGrows
    <2>2. \A y \in CopiesOf(a) : row.parent = y.parent /\ row.permits = y.permits
      BY <1>h, <2>1 DEF Agrees
    <2>3. Agrees'
      BY <1>h, <2>1, <2>2, AgreesGrows
    <2> QED
      BY <1>4, <1>a, <2>1, <2>3 DEF RenewsCA
  <1>5. CASE DropsCA(r, q)
    <2>1. PICK a \in AuthorityIds, force \in BOOLEAN :
          /\ MayDelete(a, force)
          /\ authorities' = [b \in AuthorityIds |-> IF b \in Cascade(a, force) THEN NoRow ELSE authorities[b]]
          /\ certificates' = [c \in CertificateIds |->
                IF force /\ c \in IssuedBy(a) THEN NoRow ELSE certificates[c]]
      BY <1>5 DEF DropsCA
    <2>2. KeptCAs' = KeptCAs \ Cascade(a, force)
      BY <2>1, RowsKept DEF KeptCAs
    <2>3. KeptCerts' = KeptCerts \ (IF force THEN IssuedBy(a) ELSE {})
      BY <2>1, RowsKept DEF KeptCerts, IssuedBy
    <2>4. ASSUME NEW b \in KeptCAs' PROVE authorities'[b].parent \in KeptCAs' \cup {None}
      <3>1. authorities'[b] = authorities[b] /\ b \in KeptCAs /\ b \notin Cascade(a, force)
        BY <2>1, <2>2, <2>4 DEF KeptCAs
      <3>2. authorities[b].parent \notin Cascade(a, force)
        BY <2>1, <3>1 DEF MayDelete, Children
      <3> QED
        BY <1>h, <2>2, <3>1, <3>2 DEF Hangs
    <2>5. ASSUME NEW c \in KeptCerts' PROVE certificates'[c].authority \in KeptCAs'
      <3>1. certificates'[c] = certificates[c] /\ c \in KeptCerts /\ (force => c \notin IssuedBy(a))
        BY <2>1, <2>3, <2>5 DEF KeptCerts
      <3>2. certificates[c].authority \notin Cascade(a, force)
        BY <2>1, <3>1 DEF MayDelete, IssuedBy
      <3> QED
        BY <1>h, <2>2, <3>1, <3>2 DEF Hangs
    <2> QED
      BY <1>5, <1>s, <2>4, <2>5, DropGrows DEF Hangs
  <1>6. CASE AddsRow(r, q)
    <2>1. PICK row \in CertificateRows : SaveCert(r, row) /\ row.authority \in KeptCAs
      BY <1>6 DEF AddsRow
    <2>2. /\ CopiesGrow(None, {}) /\ RowsGrow(r, {row}) /\ KeptCAs' = KeptCAs
          /\ KeptCerts' = KeptCerts \cup {r} /\ UNCHANGED authorities
          /\ \A d \in CertificateIds : certificates'[d] = IF d = r THEN row ELSE certificates[d]
      BY <1>6, <2>1, SaveCertGrows DEF AddsRow, CertificateIds
    <2>3. RowsOf(r) = {}
      BY <1>6 DEF AddsRow, FreshInv, Unissued
    <2>4. Agrees'
      BY <1>h, <2>2, <2>3, AgreesGrows
    <2> QED
      BY <1>h, <2>1, <2>2, <2>4 DEF Hangs, KeptCerts
  <1>7. CASE SavesRow(r, q)
    <2>1. PICK c \in CertificateIds : \E row \in CertificateRows, old \in RowsOf(c) :
             /\ SaveCert(c, row) /\ row.authority = old.authority
             /\ row.authority \in KeptCAs \/ (c \in KeptCerts /\ old = certificates[c])
      BY <1>7 DEF SavesRow
    <2>2. PICK row \in CertificateRows, old \in RowsOf(c) :
             /\ SaveCert(c, row) /\ row.authority = old.authority
             /\ row.authority \in KeptCAs \/ (c \in KeptCerts /\ old = certificates[c])
      BY <2>1
    <2>3. /\ CopiesGrow(None, {}) /\ RowsGrow(c, {row}) /\ KeptCAs' = KeptCAs
          /\ KeptCerts' = KeptCerts \cup {c} /\ UNCHANGED authorities
          /\ \A d \in CertificateIds : certificates'[d] = IF d = c THEN row ELSE certificates[d]
      BY <1>7, <2>2, SaveCertGrows DEF SavesRow
    <2>4. \A y \in RowsOf(c) : row.authority = y.authority
      BY <1>h, <2>2 DEF Agrees
    <2>5. Agrees'
      BY <1>h, <2>3, <2>4, AgreesGrows
    <2>6. row.authority \in KeptCAs
      BY <1>h, <2>2 DEF Hangs
    <2> QED
      BY <1>h, <2>3, <2>5, <2>6 DEF Hangs, KeptCerts
  <1>8. CASE DropsRow(r, q)
    <2>1. PICK c \in CertificateIds : SaveCert(c, NoRow)
      BY <1>8 DEF DropsRow
    <2>2. \A d \in CertificateIds : certificates'[d] = IF d = c THEN NoRow ELSE certificates[d]
      BY <2>1 DEF SaveCert, TypeInv, TypeOK
    <2>3. KeptCAs' = KeptCAs /\ KeptCerts' = KeptCerts \ {c} /\ UNCHANGED authorities
      BY <1>8, <2>2, RowsKept DEF DropsRow, KeptCAs, KeptCerts
    <2>4. Hangs'
      BY <1>h, <2>2, <2>3 DEF Hangs, KeptCerts
    <2> QED
      BY <1>8, <1>s, <2>4, DropGrows
  <1> QED
    BY <1>1, <1>2, <1>3, <1>4, <1>5, <1>6, <1>7, <1>8 DEF Does

-----------------------------------------------------------------------------
(* Every step is one of the registry, or stutters there                    *)

Above  == [a \in AuthorityIds |-> IF a \in KeptCAs THEN authorities[a].parent ELSE None]
Holder == [c \in CertificateIds |-> IF c \in KeptCerts THEN certificates[c].authority ELSE None]

LEMMA TreeStutters ==
    ASSUME KeptCAs' = KeptCAs, Above' = Above, Holder' = Holder PROVE UNCHANGED Tree!vars
  BY DEF Tree!vars, Above, Holder

LEMMA SaveCARefines ==
    ASSUME TypeInv, NEW a \in AuthorityIds, NEW row \in AuthorityRows, SaveCA(a, row),
           row.parent \in KeptCAs \cup {None}, UNCHANGED certificates,
           a \in KeptCAs => authorities[a].parent = row.parent
    PROVE  Tree!Next \/ UNCHANGED Tree!vars
  <1>1. \A b \in AuthorityIds : authorities'[b] = IF b = a THEN row ELSE authorities[b]
    BY DEF SaveCA, TypeInv, TypeOK
  <1>2. KeptCAs' = KeptCAs \cup {a} /\ KeptCerts' = KeptCerts
    BY <1>1, RowsKept DEF KeptCAs, KeptCerts
  <1>3. Holder' = Holder
    BY <1>2 DEF Holder
  <1>4. CASE a \in KeptCAs
    <2>1. \A b \in AuthorityIds : Above'[b] = Above[b]
      BY <1>1, <1>2, <1>4 DEF Above
    <2>2. Above' = Above
      BY <2>1 DEF Above
    <2> QED
      BY <1>2, <1>3, <1>4, <2>2, TreeStutters
  <1>5. CASE a \notin KeptCAs
    <2>1. Above' = [Above EXCEPT ![a] = row.parent]
      <3>1. \A b \in AuthorityIds : Above'[b] = [Above EXCEPT ![a] = row.parent][b]
        BY <1>1, <1>2 DEF Above
      <3> QED
        BY <3>1 DEF Above
    <2>2. Tree!AddNode(a, row.parent)
      BY <1>2, <1>3, <1>5, <2>1 DEF Tree!AddNode, Above, Holder
    <2>3. row.parent \in AuthorityIds \cup {None}
      BY DEF KeptCAs
    <2> QED
      BY <2>2, <2>3 DEF Tree!Next
  <1> QED
    BY <1>4, <1>5

LEMMA SaveCertRefines ==
    ASSUME TypeInv, NEW c \in CertificateIds, NEW row \in CertificateRows, SaveCert(c, row),
           row.authority \in KeptCAs, UNCHANGED authorities,
           c \in KeptCerts => certificates[c].authority = row.authority
    PROVE  Tree!Next \/ UNCHANGED Tree!vars
  <1>1. \A d \in CertificateIds : certificates'[d] = IF d = c THEN row ELSE certificates[d]
    BY DEF SaveCert, TypeInv, TypeOK
  <1>2. KeptCerts' = KeptCerts \cup {c} /\ KeptCAs' = KeptCAs
    BY <1>1, RowsKept DEF KeptCAs, KeptCerts
  <1>3. Above' = Above
    BY <1>2 DEF Above
  <1>4. CASE c \in KeptCerts
    <2>1. \A d \in CertificateIds : Holder'[d] = Holder[d]
      BY <1>1, <1>2, <1>4 DEF Holder
    <2>2. Holder' = Holder
      BY <2>1 DEF Holder
    <2> QED
      BY <1>2, <1>3, <2>2, TreeStutters
  <1>5. CASE c \notin KeptCerts
    <2>1. Holder' = [Holder EXCEPT ![c] = row.authority]
      <3>1. \A d \in CertificateIds : Holder'[d] = [Holder EXCEPT ![c] = row.authority][d]
        BY <1>1, <1>2 DEF Holder
      <3> QED
        BY <3>1 DEF Holder
    <2>2. Holder[c] = None
      BY <1>5 DEF Holder
    <2>3. Tree!AddLeaf(c, row.authority)
      BY <1>2, <1>3, <2>1, <2>2 DEF Tree!AddLeaf, Above, Holder
    <2>4. row.authority \in AuthorityIds
      BY DEF KeptCAs
    <2> QED
      BY <2>3, <2>4 DEF Tree!Next
  <1> QED
    BY <1>4, <1>5

LEMMA DropRefines ==
    ASSUME TypeInv, TreeInv, NEW r, NEW q, DropsCA(r, q)
    PROVE  Tree!Next \/ UNCHANGED Tree!vars
  <1>1. PICK a \in AuthorityIds, force \in BOOLEAN :
          /\ MayDelete(a, force)
          /\ authorities' = [b \in AuthorityIds |-> IF b \in Cascade(a, force) THEN NoRow ELSE authorities[b]]
          /\ certificates' = [c \in CertificateIds |->
                IF force /\ c \in IssuedBy(a) THEN NoRow ELSE certificates[c]]
    BY DEF DropsCA
  <1> DEFINE N == Cascade(a, force)
  <1>2. KeptCAs' = KeptCAs \ N
    BY <1>1, RowsKept DEF KeptCAs
  <1>3. KeptCerts' = KeptCerts \ (IF force THEN IssuedBy(a) ELSE {})
    BY <1>1, RowsKept DEF KeptCerts, IssuedBy
  <1>4. \A b \in AuthorityIds : Above'[b] = IF b \in N THEN None ELSE Above[b]
    BY <1>1, <1>2 DEF Above
  <1>5. a \in N /\ N \subseteq {a} \cup Children(a)
    BY DEF Cascade
  <1>6. ~force => IssuedBy(a) = {}
    BY <1>1, <1>5 DEF MayDelete
  <1>n. None \notin AuthorityIds
    BY SerialsTyped
  <1>7. \A c \in CertificateIds : Holder'[c] = IF Holder[c] = a THEN None ELSE Holder[c]
    BY <1>1, <1>3, <1>6, <1>n DEF Holder, IssuedBy, KeptCerts
  <1>8. CASE a \in KeptCAs
    <2>1. \A b \in KeptCAs' : Above[b] \notin N
      <3>1. SUFFICES ASSUME NEW b \in KeptCAs', Above[b] \in N PROVE FALSE
        OBVIOUS
      <3>2. b \in KeptCAs /\ b \notin N /\ b \in AuthorityIds
        BY <1>2, <3>1 DEF KeptCAs
      <3>3. b \in Children(Above[b])
        BY <3>2 DEF Above, Children
      <3> QED
        BY <1>1, <3>1, <3>2, <3>3 DEF MayDelete
    <2>2. \A c \in CertificateIds : Holder'[c] \notin N
      <3>1. SUFFICES ASSUME NEW c \in CertificateIds, Holder'[c] \in N PROVE FALSE
        OBVIOUS
      <3>2. N \subseteq AuthorityIds
        BY DEF Cascade, Children, KeptCAs
      <3>3. Holder'[c] # None /\ Holder[c] = Holder'[c] /\ Holder[c] # a
        BY <1>7, <1>n, <3>1, <3>2
      <3>4. c \in KeptCerts /\ certificates[c].authority = Holder[c]
        BY <3>3 DEF Holder
      <3>5. c \in IssuedBy(Holder[c])
        BY <3>4 DEF IssuedBy
      <3> QED
        BY <1>1, <3>1, <3>3, <3>5 DEF MayDelete
    <2>3. Tree!Children(a) = Children(a)
      <3>1. \A b \in KeptCAs : Above[b] = authorities[b].parent
        BY DEF Above, KeptCAs
      <3> QED
        BY <3>1 DEF Tree!Children, Children, Above
    <2>4. Above' = [b \in AuthorityIds |-> IF b \in N THEN None ELSE Above[b]]
      BY <1>4 DEF Above
    <2>5. Holder' = [c \in CertificateIds |-> IF Holder[c] = a THEN None ELSE Holder[c]]
      BY <1>7 DEF Holder
    <2>6. PICK M \in SUBSET ({a} \cup Tree!Children(a)) : M = N
      BY <1>5, <2>3
    <2>7. Tree!Drop(a, M)
      <3> HIDE DEF N
      <3> QED
        BY <1>2, <1>5, <2>1, <2>2, <2>4, <2>5, <2>6 DEF Tree!Drop, Above, Holder
    <2> QED
      BY <1>8, <2>7 DEF Tree!Next
  <1>9. CASE a \notin KeptCAs
    <2>1. Children(a) = {} /\ IssuedBy(a) = {}
      BY <1>9, SerialsTyped DEF TreeInv, Children, IssuedBy
    <2>2. N = {a}
      BY <2>1 DEF Cascade
    <2>3. KeptCAs' = KeptCAs /\ KeptCerts' = KeptCerts
      BY <1>2, <1>3, <1>9, <2>1, <2>2
    <2>4. Above' = Above
      <3>1. \A b \in AuthorityIds : Above'[b] = Above[b]
        BY <1>4, <1>9, <2>2 DEF Above
      <3> QED
        BY <3>1 DEF Above
    <2>5. \A c \in CertificateIds : Holder[c] # a
      BY <1>9, <1>n DEF TreeInv, Holder
    <2>6. Holder' = Holder
      <3>1. \A c \in CertificateIds : Holder'[c] = Holder[c]
        BY <1>7, <2>5
      <3> QED
        BY <3>1 DEF Holder
    <2> QED
      BY <2>3, <2>4, <2>6, TreeStutters
  <1> QED
    BY <1>8, <1>9

LEMMA DoesRefines ==
    ASSUME TypeInv, FreshInv, TreeInv, NEW r \in Requests, NEW q \in Handlers, Does(r, q)
    PROVE  Tree!Next \/ UNCHANGED Tree!vars
  <1>1. CASE Looks(r, q)
    <2>1. KeptCAs' = KeptCAs /\ Above' = Above /\ Holder' = Holder
      BY <1>1 DEF Looks, tables, KeptCAs, KeptCerts, Above, Holder
    <2> QED
      BY <2>1, TreeStutters
  <1>2. CASE AddsCA(r, q)
    <2>1. r \in AuthorityIds /\ r \notin KeptCAs
      BY <1>2, Copied DEF AddsCA, FreshInv, AuthorityIds
    <2> QED
      BY <1>2, <2>1, SaveCARefines DEF AddsCA, Refers
  <1>3. CASE SavesCA(r, q)
    <2> DEFINE a == request[r].ca  row == request[r].seenCA
    <2>1. a \in AuthorityIds /\ row \in AuthorityRows /\ row \in CopiesOf(a)
      BY <1>3, TablesTyped, Copied DEF SavesCA, Ready
    <2>2. a \in KeptCAs => authorities[a].parent = row.parent
      BY <2>1, Copied DEF TreeInv
    <2>3. PICK b \in AuthorityIds, new \in AuthorityRows : b = a /\ new = row
      BY <2>1
    <2>4. SaveCA(b, new) /\ UNCHANGED certificates /\ new.parent \in KeptCAs \cup {None}
      BY <1>3, <2>3 DEF SavesCA, SaveCA, Refers
    <2>5. b \in KeptCAs => authorities[b].parent = new.parent
      BY <2>2, <2>3
    <2> QED
      BY <2>4, <2>5, SaveCARefines
  <1>4. CASE RenewsCA(r, q)
    <2> DEFINE old == request[r].seenCA
    <2>1. PICK a \in AuthorityIds : a = request[r].ca
      BY <1>4, TablesTyped DEF RenewsCA, Ready, CASteps
    <2>2. PICK cert \in CACerts : SaveCA(request[r].ca, [old EXCEPT !.cert = cert])
      BY <1>4 DEF RenewsCA
    <2>3. old \in AuthorityRows /\ old \in CopiesOf(a)
      BY <1>4, <2>1, TablesTyped, Copied DEF RenewsCA, Ready, CASteps
    <2>4. PICK row \in AuthorityRows : row = [old EXCEPT !.cert = cert]
      BY <2>3 DEF AuthorityRows
    <2>5. row.parent = old.parent
      BY <2>3, <2>4 DEF AuthorityRows
    <2>6. SaveCA(a, row) /\ UNCHANGED certificates /\ row.parent \in KeptCAs \cup {None}
      BY <1>4, <2>1, <2>2, <2>4, <2>5 DEF RenewsCA, Refers, SaveCA
    <2>7. a \in KeptCAs => authorities[a].parent = row.parent
      BY <2>3, <2>5, Copied DEF TreeInv
    <2> QED
      BY <2>6, <2>7, SaveCARefines
  <1>5. CASE DropsCA(r, q)
    BY <1>5, DropRefines
  <1>6. CASE AddsRow(r, q)
    <2>1. r \in CertificateIds /\ r \notin KeptCerts
      BY <1>6, Copied DEF AddsRow, FreshInv, CertificateIds, Unissued
    <2> QED
      BY <1>6, <2>1, SaveCertRefines DEF AddsRow
  <1>7. CASE SavesRow(r, q)
    <2>1. PICK c \in CertificateIds : \E row \in CertificateRows, old \in RowsOf(c) :
             /\ SaveCert(c, row) /\ row.authority = old.authority
             /\ row.authority \in KeptCAs \/ (c \in KeptCerts /\ old = certificates[c])
      BY <1>7 DEF SavesRow
    <2>2. PICK row \in CertificateRows, old \in RowsOf(c) :
             /\ SaveCert(c, row) /\ row.authority = old.authority
             /\ row.authority \in KeptCAs \/ (c \in KeptCerts /\ old = certificates[c])
      BY <2>1
    <2>3. c \in KeptCerts => certificates[c].authority = row.authority
      BY <2>2, Copied DEF TreeInv
    <2>4. row.authority \in KeptCAs
      BY <2>2 DEF TreeInv
    <2> QED
      BY <1>7, <2>2, <2>3, <2>4, SaveCertRefines DEF SavesRow
  <1>8. CASE DropsRow(r, q)
    <2>1. PICK c \in CertificateIds : SaveCert(c, NoRow)
      BY <1>8 DEF DropsRow
    <2>2. \A d \in CertificateIds : certificates'[d] = IF d = c THEN NoRow ELSE certificates[d]
      BY <2>1 DEF SaveCert, TypeInv, TypeOK
    <2>3. KeptCAs' = KeptCAs /\ KeptCerts' = KeptCerts \ {c}
      BY <1>8, <2>2, RowsKept DEF DropsRow, KeptCAs, KeptCerts
    <2>4. Above' = Above
      BY <1>8, <2>3 DEF DropsRow, Above
    <2>5. Holder' = [Holder EXCEPT ![c] = None]
      <3>1. \A d \in CertificateIds : Holder'[d] = [Holder EXCEPT ![c] = None][d]
        BY <2>2, <2>3 DEF Holder
      <3> QED
        BY <3>1 DEF Holder
    <2>6. Tree!DropLeaf(c)
      BY <2>3, <2>4, <2>5 DEF Tree!DropLeaf, Above, Holder
    <2> QED
      BY <2>6 DEF Tree!Next
  <1> QED
    BY <1>1, <1>2, <1>3, <1>4, <1>5, <1>6, <1>7, <1>8 DEF Does

\* Nothing that the invariants of rows are about changes.
LEMMA RowsFrame ==
    ASSUME UNCHANGED <<authorities, certificates, request>>
    PROVE  /\ KeptCAs' = KeptCAs /\ KeptCerts' = KeptCerts /\ SeenCACerts' = SeenCACerts
           /\ \A a : CopiesOf(a)' = CopiesOf(a) /\ RowsOf(a)' = RowsOf(a)
  BY DEF KeptCAs, KeptCerts, SeenCACerts, CopiesOf, RowsOf

LEMMA Starts ==
    ASSUME Init
    PROVE  /\ KeptCAs = DOMAIN FirstAuthorities /\ KeptCerts = DOMAIN FirstCertificates
           /\ \A a \in KeptCAs : authorities[a] = FirstAuthorities[a]
           /\ \A c \in KeptCerts : certificates[c] = FirstCertificates[c]
           /\ \A r \in Requests : /\ request[r] = Idle /\ request[r].step = "idle"
                                  /\ ~request[r].seenCA.kept /\ ~request[r].seenParent.kept
                                  /\ ~request[r].seenCert.kept
  <1>1. /\ \A a \in DOMAIN FirstAuthorities : FirstAuthorities[a].kept
        /\ \A c \in DOMAIN FirstCertificates : FirstCertificates[c].kept
    BY AuthoritiesAssumption, RowsKept
  <1>2. KeptCAs = DOMAIN FirstAuthorities
    BY <1>1, RowsKept DEF Init, KeptCAs, AuthorityIds
  <1>3. KeptCerts = DOMAIN FirstCertificates
    BY <1>1, RowsKept DEF Init, KeptCerts, CertificateIds
  <1>4. /\ Idle.step = "idle"
        /\ ~Idle.seenCA.kept /\ ~Idle.seenParent.kept /\ ~Idle.seenCert.kept
    BY RowsKept DEF Idle
  <1> QED
    BY <1>2, <1>3, <1>4 DEF Init, AuthorityIds, CertificateIds

\* At the start a row has one copy, in its table.
LEMMA StartCopies ==
    ASSUME Init
    PROVE  /\ \A a : \A x \in CopiesOf(a) : a \in DOMAIN FirstAuthorities /\ x = FirstAuthorities[a]
           /\ \A c : \A x \in RowsOf(c) : c \in DOMAIN FirstCertificates /\ x = FirstCertificates[c]
           /\ SeenCACerts \subseteq FirstCACerts
  <1>1. \A a : \A x \in CopiesOf(a) : a \in DOMAIN FirstAuthorities /\ x = FirstAuthorities[a]
    BY Starts DEF CopiesOf
  <1>2. \A c : \A x \in RowsOf(c) : c \in DOMAIN FirstCertificates /\ x = FirstCertificates[c]
    BY Starts DEF RowsOf
  <1>3. SeenCACerts \subseteq FirstCACerts
    BY Starts DEF SeenCACerts, FirstCACerts
  <1> QED
    BY <1>1, <1>2, <1>3

LEMMA InitTree == Init => FreshInv /\ TreeInv
  <1> SUFFICES ASSUME Init PROVE FreshInv /\ TreeInv
    OBVIOUS
  <1>1. FreshInv
    BY StartCopies, FreshAssumption DEF FreshInv
  <1>2. TreeInv
    BY Starts, StartCopies, AuthoritiesAssumption DEF TreeInv
  <1> QED
    BY <1>1, <1>2

LEMMA TreeNext == TypeInv /\ FreshInv /\ TreeInv /\ [Next]_vars => FreshInv' /\ TreeInv'
  <1> SUFFICES ASSUME TypeInv, FreshInv, TreeInv, [Next]_vars PROVE FreshInv' /\ TreeInv'
    OBVIOUS
  <1>1. ASSUME NEW r \in Requests, Step(r) PROVE FreshInv' /\ TreeInv'
    BY <1>1, StepMoves, FreshStep, TreeStep DEF Moves
  <1>2. CASE UNCHANGED <<authorities, certificates, request>>
    BY <1>2, RowsFrame DEF FreshInv, TreeInv, Unissued
  <1> QED
    BY <1>1, <1>2 DEF Next, Tick, vars, tables

LEMMA TreeAlways == Spec => [](TypeInv /\ FreshInv /\ TreeInv)
  <1>1. TypeInv /\ FreshInv /\ TreeInv /\ [Next]_vars => (TypeInv /\ FreshInv /\ TreeInv)'
    BY NextTyped, TreeNext
  <1> QED
    BY <1>1, InitTyped, InitTree, PTL DEF Spec

LEMMA InitRefines == Init => Tree!Init
  <1> SUFFICES ASSUME Init PROVE Tree!Init
    OBVIOUS
  <1>1. /\ \A a \in KeptCAs : a \in AuthorityIds /\ authorities[a].parent \in KeptCAs \cup {None}
        /\ \A c \in KeptCerts : certificates[c].authority \in KeptCAs
    BY InitTree DEF TreeInv, KeptCAs
  <1> QED
    BY <1>1 DEF Tree!Init

\* Whatever is deleted, cascaded, saved back late or stopped half way: the two
\* tables are a forest.  No row hangs from one that is gone, none is moved, and
\* an authority goes only together with all that hangs from it.
THEOREM TablesAreAForest == Spec => ImplementsRegistry
  <1>1. TypeInv /\ FreshInv /\ TreeInv /\ [Next]_vars => [Tree!Next]_(Tree!vars)
    <2> SUFFICES ASSUME TypeInv, FreshInv, TreeInv, [Next]_vars
                 PROVE  Tree!Next \/ UNCHANGED Tree!vars
      OBVIOUS
    <2>1. ASSUME NEW r \in Requests, Step(r) PROVE Tree!Next \/ UNCHANGED Tree!vars
      BY <2>1, StepMoves, DoesRefines DEF Moves
    <2>2. CASE UNCHANGED <<authorities, certificates, request>>
      BY <2>2 DEF Tree!vars, KeptCAs, KeptCerts
    <2> QED
      BY <2>1, <2>2 DEF Next, Tick, vars, tables
  <1> QED
    BY <1>1, InitRefines, TreeAlways, PTL DEF Spec, Tree!Spec, ImplementsRegistry

-----------------------------------------------------------------------------
(* Nothing exceeds the certificate that signed it                          *)

\* What a request has not yet done, it has not yet done after a step.
LEMMA UnsignedStep ==
    ASSUME TypeInv, NEW r \in Requests, NEW q \in Handlers, Set(r, q), Does(r, q)
    PROVE  /\ \A s \in Requests : Unsigned(s)' => Unsigned(s)
           /\ \A s \in Requests : request'[s].step \in {"idle", "insertAuthority"} =>
                                  request[s].step \in {"idle", "insertAuthority"}
           /\ ~Looks(r, q) => ~Unsigned(r)' /\ request'[r].step \notin {"idle", "insertAuthority"}
  <1>1. \A s \in Requests : request'[s] = IF s = r THEN q ELSE request[s]
    BY DEF Set, TypeInv, TypeOK
  <1>2. CASE Looks(r, q)
    BY <1>1, <1>2 DEF Looks, Unsigned
  <1>3. CASE ~Looks(r, q)
    <2>1. q.step \in {"done", "urls"}
      BY <1>3, DoneHolds DEF Does, AddsCA, SavesCA, RenewsCA, DropsCA, AddsRow, SavesRow, DropsRow, Idle
    <2> QED
      BY <1>1, <1>3, <2>1 DEF Unsigned
  <1> QED
    BY <1>2, <1>3

\* Copies of what was there are signed as it was.
LEMMA SignFrame ==
    ASSUME SignInv, CopiesGrow(None, {}), RowsGrow(None, {}), CertsGrow({}),
           \A s \in Requests : Unsigned(s)' => Unsigned(s),
           \A s \in Requests : request'[s].step \in {"idle", "insertAuthority"} =>
                               request[s].step \in {"idle", "insertAuthority"}
    PROVE  SignInv'
  <1>1. /\ \A a : CopiesOf(a)' \subseteq CopiesOf(a)
        /\ \A c : RowsOf(c)' \subseteq RowsOf(c)
        /\ SeenCACerts' \subseteq SeenCACerts
    BY DEF CopiesGrow, RowsGrow, CertsGrow
  <1>2. SerialInv'
    BY <1>1 DEF SignInv, SerialInv
  <1>3. ColumnInv'
    BY <1>1 DEF SignInv, ColumnInv
  <1>4. RowInv'
    BY <1>1 DEF SignInv, RowInv, RowSigned
  <1>5. UnusedInv'
    BY <1>1 DEF SignInv, UnusedInv
  <1> QED
    BY <1>2, <1>3, <1>4, <1>5 DEF SignInv

\* A request signs a CA certificate, or imports one, for an authority a.
LEMMA SignCA ==
    ASSUME TypeInv, SignInv, NEW r \in Requests, Unsigned(r), ~Unsigned(r)',
           NEW a \in AuthorityIds, NEW row \in AuthorityRows,
           CopiesGrow(a, {row}), RowsGrow(None, {}), CertsGrow({row.cert}),
           Signed(r, row.cert) \/ row.cert \in SeenCACerts,
           row.permits \subseteq row.cert.permits,
           \A c \in CertificateIds : \A old \in RowsOf(c) :
              old.authority = a => CheckedNames(old) \ Unchecked \subseteq row.permits,
           \A s \in Requests : Unsigned(s)' => Unsigned(s),
           \A s \in Requests : request'[s].step \in {"idle", "insertAuthority"} =>
                               request[s].step \in {"idle", "insertAuthority"}
    PROVE  SignInv'
  <1> DEFINE cert == row.cert
  <1>1. /\ \A b : CopiesOf(b)' \subseteq CopiesOf(b) \cup (IF b = a THEN {row} ELSE {})
        /\ \A c : RowsOf(c)' \subseteq RowsOf(c)
        /\ SeenCACerts' \subseteq SeenCACerts \cup {cert}
    BY DEF CopiesGrow, RowsGrow, CertsGrow
  <1>2. r # None
    BY SerialsTyped DEF AuthorityIds
  <1>3. ColumnInv'
    BY <1>1 DEF SignInv, ColumnInv
  <1>4. CASE cert \in SeenCACerts
    <2>1. SeenCACerts' \subseteq SeenCACerts
      BY <1>1, <1>4
    <2>2. SerialInv'
      BY <2>1 DEF SignInv, SerialInv
    <2>3. RowInv'
      BY <1>1, <2>1 DEF SignInv, RowInv, RowSigned
    <2>4. UnusedInv'
      BY <1>1, <2>1 DEF SignInv, UnusedInv
    <2> QED
      BY <1>3, <2>2, <2>3, <2>4 DEF SignInv
  <1>5. CASE Signed(r, cert)
    <2>1. cert.serial = r /\ cert.signer # r
      BY <1>2, <1>5 DEF Signed, SignInv, UnusedInv
    <2>2. \A x \in SeenCACerts :
             /\ x.serial # r /\ x.signer # r
             /\ cert.signer = x.serial => Covers(x, cert.until, TRUE, {})
      <3>1. \A x \in SeenCACerts : x.serial # r /\ x.signer # r
        BY DEF SignInv, UnusedInv
      <3>2. ASSUME NEW x \in SeenCACerts, cert.signer = x.serial PROVE Covers(x, cert.until, TRUE, {})
        <4>1. cert.signer # None
          BY <3>2, SerialsTyped, CopiesTyped, CertTyped
        <4>2. PICK z \in SeenCACerts : cert.signer = z.serial /\ CanSign(z, cert.until, TRUE)
          BY <1>5, <4>1 DEF Signed
        <4>3. z = x
          BY <3>2, <4>2 DEF SignInv, SerialInv
        <4> QED
          BY <4>2, <4>3 DEF CanSign, Covers
      <3> QED
        BY <3>1, <3>2
    <2>3. SerialInv'
      BY <1>1, <2>1, <2>2 DEF SignInv, SerialInv
    <2>4. \A c \in CertificateIds : \A old \in RowsOf(c) : old.signer # r
      BY DEF SignInv, UnusedInv
    <2>5. RowInv'
      BY <1>1, <2>1, <2>4 DEF SignInv, RowInv, RowSigned
    <2>6. UnusedInv'
      <3>1. ASSUME NEW s \in Requests, Unsigned(s)' PROVE cert.serial # s /\ cert.signer # s
        <4>1. s # r /\ Unsigned(s) /\ s # None
          BY <3>1, SerialsTyped DEF AuthorityIds
        <4>2. CASE cert.signer = None
          BY <2>1, <4>1, <4>2
        <4>3. CASE cert.signer # None
          BY <1>5, <2>1, <4>1, <4>3 DEF Signed, SignInv, UnusedInv
        <4> QED
          BY <4>2, <4>3
      <3> QED
        BY <1>1, <3>1 DEF SignInv, UnusedInv
    <2> QED
      BY <1>3, <2>3, <2>5, <2>6 DEF SignInv
  <1> QED
    BY <1>4, <1>5

\* A row of the certificates table is signed, or put back.
LEMMA SignRow ==
    ASSUME TypeInv, SignInv, NEW c, NEW row,
           CopiesGrow(None, {}), RowsGrow(c, {row}), CertsGrow({}), RowSigned(row),
           \A s \in Requests : Unsigned(s)' => Unsigned(s) /\ row.signer # s,
           \A s \in Requests : request'[s].step \in {"idle", "insertAuthority"} =>
                               request[s].step \in {"idle", "insertAuthority"} /\ row.authority # s
    PROVE  SignInv'
  <1>1. /\ \A a : CopiesOf(a)' \subseteq CopiesOf(a)
        /\ \A d : RowsOf(d)' \subseteq RowsOf(d) \cup {row}
        /\ SeenCACerts' \subseteq SeenCACerts
    BY DEF CopiesGrow, RowsGrow, CertsGrow
  <1>2. SerialInv'
    BY <1>1 DEF SignInv, SerialInv
  <1>3. ColumnInv'
    BY <1>1 DEF SignInv, ColumnInv
  <1>4. RowInv'
    BY <1>1 DEF SignInv, RowInv, RowSigned
  <1>5. UnusedInv'
    BY <1>1 DEF SignInv, UnusedInv
  <1> QED
    BY <1>2, <1>3, <1>4, <1>5 DEF SignInv

LEMMA SignStep ==
    ASSUME TypeInv, FreshInv, TreeInv, SignInv,
           NEW r \in Requests, NEW q \in Handlers, Set(r, q), Does(r, q)
    PROVE  SignInv'
  <1>u. /\ \A s \in Requests : Unsigned(s)' => Unsigned(s)
        /\ \A s \in Requests : request'[s].step \in {"idle", "insertAuthority"} =>
                               request[s].step \in {"idle", "insertAuthority"}
    BY UnsignedStep
  <1>1. CASE Looks(r, q) \/ DropsCA(r, q) \/ DropsRow(r, q)
    BY <1>1, <1>u, LooksGrow, DropGrows, SignFrame
  <1>2. CASE AddsCA(r, q) /\ ~Looks(r, q)
    <2>1. PICK row \in AuthorityRows :
             /\ SaveCA(r, row) /\ row.permits = row.cert.permits
             /\ q = [Idle EXCEPT !.step = "urls", !.ca = r, !.seenCA = row]
             /\ Signed(r, row.cert) \/ \E f \in DOMAIN Foreign : row.cert = ForeignCert(f)
      BY <1>2 DEF AddsCA
    <2>2. /\ r \in AuthorityIds /\ request[r].step \in {"idle", "insertAuthority"} /\ Unsigned(r)
          /\ ~Unsigned(r)' /\ UNCHANGED certificates
      BY <1>2, UnsignedStep DEF AddsCA, AuthorityIds, Unsigned
    <2>3. CopiesGrow(r, {row}) /\ RowsGrow(None, {}) /\ CertsGrow({row.cert})
      <3>1. SaveCA(r, row) /\ UNCHANGED certificates /\ r \in AuthorityIds
        BY <2>1, <2>2
      <3>2. q = Done \/ q = [Idle EXCEPT !.step = "urls", !.ca = r, !.seenCA = row]
        BY <2>1
      <3> QED
        BY <3>1, <3>2, SaveCAGrows
    <2>4. Signed(r, row.cert) \/ row.cert \in SeenCACerts
      BY <2>1 DEF SeenCACerts
    <2>5. \A c \in CertificateIds : \A old \in RowsOf(c) : old.authority # r
      BY <2>2 DEF SignInv, UnusedInv
    <2>6. row.permits \subseteq row.cert.permits
      BY <2>1
    <2> QED
      BY <1>u, <2>2, <2>3, <2>4, <2>5, <2>6, SignCA
  <1>3. CASE SavesCA(r, q)
    <2>1. PICK a \in AuthorityIds, row \in AuthorityRows :
             a = request[r].ca /\ row = request[r].seenCA /\ row \in CopiesOf(a)
      BY <1>3, TablesTyped, Copied DEF SavesCA, Ready
    <2>2. CopiesGrow(None, {}) /\ RowsGrow(None, {}) /\ CertsGrow({})
      <3>1. SaveCA(a, row) /\ UNCHANGED certificates /\ q = Done
        BY <1>3, <2>1 DEF SavesCA
      <3> QED
        BY <2>1, <3>1, SaveCAGrows
    <2> QED
      BY <1>u, <2>2, SignFrame
  <1>4. CASE RenewsCA(r, q) /\ ~Looks(r, q)
    <2>1. PICK a \in AuthorityIds, row \in AuthorityRows : \E old \in CopiesOf(a) :
              /\ row.permits = old.permits
              /\ Signed(r, row.cert) /\ row.cert.permits = Names
              /\ CopiesGrow(a, {row}) /\ RowsGrow(None, {}) /\ CertsGrow({row.cert})
      BY <1>4, RenewsCAGrows
    <2>2. Unsigned(r) /\ ~Unsigned(r)'
      BY <1>4, UnsignedStep DEF RenewsCA, Unsigned
    <2>3. row.permits \subseteq row.cert.permits
      BY <2>1, SerialsTyped
    <2>4. PICK old \in CopiesOf(a) : row.permits = old.permits
      BY <2>1
    <2>5. \A c \in CertificateIds : \A x \in RowsOf(c) :
             x.authority = a => CheckedNames(x) \ Unchecked \subseteq row.permits
      BY <2>4 DEF SignInv, RowInv, RowSigned
    <2> QED
      BY <1>u, <2>1, <2>2, <2>3, <2>5, SignCA
  <1>5. CASE AddsRow(r, q)
    <2> DEFINE p == request[r]  x == p.seenCA
    <2>1. PICK row \in CertificateRows :
             /\ SaveCert(r, row) /\ row.authority = p.ca /\ row.signer = x.cert.serial
             /\ row.until <= x.cert.until
             /\ \/ CheckedNames(row) \ Unchecked \subseteq x.permits
                \/ p.step = "renew" /\ CheckedNames(row) = CheckedNames(p.seenCert)
      BY <1>5 DEF AddsRow
    <2>2. CopiesGrow(None, {}) /\ RowsGrow(r, {row}) /\ CertsGrow({})
      BY <1>5, <2>1, SaveCertGrows DEF AddsRow, CertificateIds
    <2>3. p.ca \in AuthorityIds /\ x \in CopiesOf(p.ca) /\ x.cert \in SeenCACerts
      BY <1>5, TablesTyped, Copied DEF AddsRow, Ready, CASteps
    <2>4. CheckedNames(row) \ Unchecked \subseteq x.permits
      <3>1. CASE p.step = "renew"
        <4>1. /\ p.cert \in CertificateIds /\ p.seenCert \in RowsOf(p.cert)
              /\ p.seenCert.authority = p.ca
          BY <3>1, TablesTyped, Copied DEF Ready, CertSteps
        <4>2. CheckedNames(p.seenCert) \ Unchecked \subseteq x.permits
          BY <2>3, <4>1 DEF SignInv, RowInv, RowSigned
        <4> QED
          BY <2>1, <4>2
      <3>2. CASE p.step # "renew"
        BY <2>1, <3>2
      <3> QED
        BY <3>1, <3>2
    <2>5. RowSigned(row)
      <3>1. \A y \in CopiesOf(row.authority) : CheckedNames(row) \ Unchecked \subseteq y.permits
        BY <2>1, <2>3, <2>4 DEF TreeInv
      <3>2. \A y \in SeenCACerts : row.signer = y.serial => y = x.cert
        BY <2>1, <2>3 DEF SignInv, SerialInv
      <3>3. x.permits \subseteq x.cert.permits
        BY <2>3 DEF SignInv, ColumnInv
      <3>4. Covers(x.cert, row.until, FALSE, CheckedNames(row))
        BY <2>1, <2>4, <3>3 DEF Covers
      <3> QED
        BY <3>1, <3>2, <3>4 DEF RowSigned
    <2>6. \A s \in Requests : Unsigned(s)' => Unsigned(s) /\ row.signer # s
      BY <1>u, <2>1, <2>3 DEF SignInv, UnusedInv
    <2>7. \A s \in Requests : request'[s].step \in {"idle", "insertAuthority"} =>
                              request[s].step \in {"idle", "insertAuthority"} /\ row.authority # s
      BY <1>u, <2>1, <2>3 DEF FreshInv
    <2> QED
      BY <2>2, <2>5, <2>6, <2>7, SignRow
  <1>6. CASE SavesRow(r, q)
    <2>1. PICK c \in CertificateIds : \E row \in CertificateRows, old \in RowsOf(c) :
             /\ SaveCert(c, row) /\ row.authority = old.authority /\ row.signer = old.signer
             /\ row.until = old.until /\ CheckedNames(row) = CheckedNames(old)
      BY <1>6 DEF SavesRow
    <2>2. PICK row \in CertificateRows, old \in RowsOf(c) :
             /\ SaveCert(c, row) /\ row.authority = old.authority /\ row.signer = old.signer
             /\ row.until = old.until /\ CheckedNames(row) = CheckedNames(old)
      BY <2>1
    <2>3. CopiesGrow(None, {}) /\ RowsGrow(c, {row}) /\ CertsGrow({})
      BY <1>6, <2>2, SaveCertGrows DEF SavesRow
    <2>4. RowSigned(row)
      BY <2>2 DEF SignInv, RowInv, RowSigned
    <2>5. \A s \in Requests : Unsigned(s)' => Unsigned(s) /\ row.signer # s
      BY <1>u, <2>2 DEF SignInv, UnusedInv
    <2>6. \A s \in Requests : request'[s].step \in {"idle", "insertAuthority"} =>
                              request[s].step \in {"idle", "insertAuthority"} /\ row.authority # s
      BY <1>u, <2>2 DEF SignInv, UnusedInv
    <2> QED
      BY <2>3, <2>4, <2>5, <2>6, SignRow
  <1> QED
    BY <1>1, <1>2, <1>3, <1>4, <1>5, <1>6 DEF Does

LEMMA InitSigned == Init => SignInv
  <1> SUFFICES ASSUME Init PROVE SignInv
    OBVIOUS
  <1>1. SerialInv
    BY StartCopies, SignedAssumption DEF SerialInv
  <1>2. ColumnInv
    BY StartCopies, SignedAssumption DEF ColumnInv
  <1>3. RowInv
    <2> SUFFICES ASSUME NEW c \in CertificateIds, NEW row \in RowsOf(c) PROVE RowSigned(row)
      BY DEF RowInv
    <2>1. c \in DOMAIN FirstCertificates /\ row = FirstCertificates[c]
      BY StartCopies
    <2>2. /\ CheckedNames(row) \ Unchecked \subseteq FirstAuthorities[row.authority].permits
          /\ \A x \in FirstCACerts : row.signer = x.serial => Covers(x, row.until, FALSE, CheckedNames(row))
      BY <2>1, SignedAssumption
    <2> QED
      BY <2>2, StartCopies DEF RowSigned
  <1>4. UnusedInv
    <2>1. \A r \in Requests : \A x \in SeenCACerts : x.serial # r /\ x.signer # r
      BY StartCopies, SignedAssumption
    <2>2. ASSUME NEW r \in Requests, NEW c \in CertificateIds, NEW row \in RowsOf(c)
          PROVE  row.signer # r /\ row.authority # r
      <3>1. c \in DOMAIN FirstCertificates /\ row = FirstCertificates[c]
        BY StartCopies
      <3>2. row.authority \in DOMAIN FirstAuthorities /\ row.signer \notin Requests
        BY <3>1, AuthoritiesAssumption, SignedAssumption
      <3> QED
        BY <3>2, FreshAssumption
    <2> QED
      BY <2>1, <2>2 DEF UnusedInv
  <1> QED
    BY <1>1, <1>2, <1>3, <1>4 DEF SignInv

LEMMA SignNext == TypeInv /\ FreshInv /\ TreeInv /\ SignInv /\ [Next]_vars => SignInv'
  <1> SUFFICES ASSUME TypeInv, FreshInv, TreeInv, SignInv, [Next]_vars PROVE SignInv'
    OBVIOUS
  <1>1. ASSUME NEW r \in Requests, Step(r) PROVE SignInv'
    BY <1>1, StepMoves, SignStep DEF Moves
  <1>2. CASE UNCHANGED <<authorities, certificates, request>>
    <2>1. CopiesGrow(None, {}) /\ RowsGrow(None, {}) /\ CertsGrow({})
      BY <1>2, RowsFrame DEF CopiesGrow, RowsGrow, CertsGrow
    <2> QED
      BY <1>2, <2>1, SignFrame DEF Unsigned
  <1> QED
    BY <1>1, <1>2 DEF Next, Tick, vars, tables

\* Renewals, imports, deletions and saves of old rows may come between the
\* signing of a certificate and any later state: as long as the authority shows
\* the certificate it was signed with, that one covers it.
THEOREM SignedWithinIssuer == Spec => []SignedWithin
  <1>1. TypeInv /\ FreshInv /\ TreeInv /\ SignInv /\ [Next]_vars => SignInv'
    BY SignNext
  <1>2. TypeInv /\ SignInv => SignedWithin
    <2> SUFFICES ASSUME TypeInv, SignInv PROVE SignedWithin
      OBVIOUS
    <2>1. ASSUME NEW c \in KeptCerts, authorities[certificates[c].authority].kept,
                 authorities[certificates[c].authority].cert.serial = certificates[c].signer
          PROVE  Covers(authorities[certificates[c].authority].cert, certificates[c].until, FALSE,
                        CheckedNames(certificates[c]))
      <3>1. certificates[c] \in RowsOf(c) /\ c \in CertificateIds
        BY Copied DEF KeptCerts
      <3>2. certificates[c].authority \in KeptCAs
        BY <2>1, <3>1, CopiesTyped, CertificatesTyped DEF KeptCAs
      <3> QED
        BY <2>1, <3>1, <3>2, Copied DEF SignInv, RowInv, RowSigned
    <2>2. ASSUME NEW a \in KeptCAs, authorities[a].parent \in KeptCAs,
                 authorities[a].cert.signer = authorities[authorities[a].parent].cert.serial
          PROVE  Covers(authorities[authorities[a].parent].cert, authorities[a].cert.until, TRUE, {})
      BY <2>2, Copied DEF SignInv, SerialInv
    <2> QED
      BY <2>1, <2>2 DEF SignedWithin
  <1> QED
    BY <1>1, <1>2, InitSigned, TreeAlways, PTL DEF Spec

-----------------------------------------------------------------------------
(* The key of a row is handed out once                                     *)

LEMMA WriterHolds ==
    ASSUME TypeInv, NEW r \in Requests, Writes(r)
    PROVE  /\ request[r].cert \in CertificateIds /\ request[r].seenCert \in CertificateRows
           /\ request[r].seenCert \in RowsOf(request[r].cert)
           /\ request[r].seenCert.downloads \in Nat
  BY TablesTyped, Copied, CertificatesTyped DEF Writes, Ready, CertSteps

\* A step that writes no row it has read: what it does to the table is to leave
\* a row alone, to remove it, or to insert its own.
LEMMA KeyFrame ==
    ASSUME TypeInv, FreshInv, KeyInv, NEW r \in Requests, UNCHANGED <<handed, raced>>,
           \A s \in Requests \ {r} : request'[s] = request[s],
           ~Writes(r)', Unissued(r)' => Unissued(r),
           \A c \in KeptCerts' :
              \/ c \in KeptCerts /\ certificates'[c] = certificates[c]
              \/ c = r /\ Unissued(r) /\ certificates'[c].downloads = 0
    PROVE  KeyInv'
  <1> SUFFICES ASSUME Policy = "once" PROVE KeyInv'
    BY DEF KeyInv
  <1>1. \A s \in Requests : Writes(s)' => s # r /\ Writes(s) /\ request'[s] = request[s]
    BY DEF Writes
  <1>2. \A s \in Requests : Unissued(s)' => Unissued(s)
    BY DEF Unissued
  <1>3. \A c \in KeptCerts' \ raced : handed[c] <= certificates'[c].downloads
    BY DEF KeyInv
  <1>4. ASSUME NEW s \in Requests, Writes(s)', request[s].cert \notin raced, request[s].cert \in KeptCerts'
        PROVE  certificates'[request[s].cert].downloads = request[s].seenCert.downloads
    <2>1. CASE request[s].cert \in KeptCerts /\ certificates'[request[s].cert] = certificates[request[s].cert]
      BY <1>1, <1>4, <2>1 DEF KeyInv
    <2>2. CASE request[s].cert = r /\ Unissued(r)
      <3>1. RowsOf(r) = {}
        BY <2>2 DEF FreshInv
      <3> QED
        BY <1>1, <1>4, <2>2, <3>1, WriterHolds
    <2> QED
      BY <1>4, <2>1, <2>2
  <1> QED
    BY <1>1, <1>2, <1>3, <1>4 DEF KeyInv

\* A request reads a row that no other is about to write.
LEMMA KeyRead ==
    ASSUME TypeInv, KeyInv, NEW r \in Requests, NEW c \in KeptCerts,
           NEW step \in {"saveCertificate", "download"}, Reads(c), UNCHANGED <<tables, handed>>,
           Set(r, [Idle EXCEPT !.step = step, !.cert = c, !.seenCert = certificates[c]]),
           Policy = "once" /\ step = "download" => certificates[c].downloads = 0
    PROVE  KeyInv'
  <1> DEFINE q == [Idle EXCEPT !.step = step, !.cert = c, !.seenCert = certificates[c]]
  <1> SUFFICES ASSUME Policy = "once" PROVE KeyInv'
    BY DEF KeyInv
  <1>1. /\ raced \subseteq raced'
        /\ \A s \in Requests : Writes(s) /\ request[s].cert = c => c \in raced'
    BY DEF Reads
  <1>2. q.step = step /\ q.cert = c /\ q.seenCert = certificates[c]
    BY DEF Idle
  <1>3. \A s \in Requests : request'[s] = IF s = r THEN q ELSE request[s]
    BY DEF Set, TypeInv, TypeOK
  <1> HIDE DEF q
  <1>4. KeptCerts' = KeptCerts /\ certificates' = certificates /\ handed' = handed
    BY DEF tables, KeptCerts
  <1>5. \A s, t \in Requests : Writes(s)' /\ Writes(t)' /\ request'[s].cert = request'[t].cert =>
                                       s = t \/ request'[t].cert \in raced'
    BY <1>1, <1>2, <1>3 DEF KeyInv, Writes
  <1>6. ASSUME NEW s \in Requests, Writes(s)', request'[s].cert \notin raced'
        PROVE  /\ handed[request'[s].cert] <= request'[s].seenCert.downloads
               /\ request'[s].cert \in KeptCerts =>
                     certificates[request'[s].cert].downloads = request'[s].seenCert.downloads
               /\ request'[s].step = "download" => request'[s].seenCert.downloads = 0
    <2>1. CASE s = r
      <3>1. request'[s].cert = c /\ c \notin raced /\ request'[s].seenCert = certificates[c]
            /\ request'[s].step = step
        BY <1>1, <1>2, <1>3, <1>6, <2>1
      <3>2. handed[c] <= certificates[c].downloads
        BY <3>1 DEF KeyInv
      <3> QED
        BY <3>1, <3>2
    <2>2. CASE s # r
      BY <1>1, <1>3, <1>6, <2>2 DEF KeyInv, Writes
    <2> QED
      BY <2>1, <2>2
  <1>7. \A s \in Requests : Unissued(s)' => Unissued(s)
    BY <1>2, <1>3 DEF Unissued
  <1> QED
    BY <1>1, <1>4, <1>5, <1>6, <1>7 DEF KeyInv

\* A writer that writes, or hands out the key, is the only one.
LEMMA KeyWrite ==
    ASSUME TypeInv, FreshInv, KeyInv, NEW r \in Requests, SaveCertificate(r) \/ Download(r)
    PROVE  KeyInv'
  <1> DEFINE c == request[r].cert
  <1> SUFFICES ASSUME Policy = "once" PROVE KeyInv'
    BY DEF KeyInv
  <1>1. raced' = raced /\ Writes(r)
    BY DEF SaveCertificate, Download, Writes, At
  <1>2. c \in CertificateIds /\ request[r].seenCert \in CertificateRows /\ request[r].seenCert \in RowsOf(c)
    BY <1>1, WriterHolds
  <1>3. \A s \in Requests : request'[s] = IF s = r THEN Done ELSE request[s]
    BY DEF SaveCertificate, Download, Stop, Set, TypeInv, TypeOK
  <1>4. \A s \in Requests : Writes(s)' => s # r /\ Writes(s) /\ request'[s] = request[s]
    BY <1>3, DoneHolds DEF Writes
  <1>5. \A s \in Requests : Writes(s)' /\ request[s].cert = c => c \in raced
    BY <1>1, <1>4 DEF KeyInv
  <1>6. \A s \in Requests : Unissued(s)' => Unissued(s) /\ s # c
    BY <1>2, <1>3, DoneHolds DEF Unissued, FreshInv
  <1>t. /\ certificates \in [CertificateIds -> CertificateRows \cup {NoRow}]
        /\ handed \in [CertificateIds -> Nat]
    BY DEF TypeInv, TypeOK
  <1>7. CASE SaveCertificate(r)
    <2>1. handed' = handed
      BY <1>7 DEF SaveCertificate
    <2>2. \A d \in CertificateIds : certificates'[d] = certificates[d]
                                    \/ (d = c /\ certificates'[d] = request[r].seenCert)
      BY <1>7, <1>t DEF SaveCertificate, SaveCert
    <2>3. ASSUME NEW d \in KeptCerts'
          PROVE  /\ d \notin raced => handed[d] <= certificates'[d].downloads
                 /\ d # c => d \in KeptCerts /\ certificates'[d] = certificates[d]
      <3>1. CASE certificates'[d] = certificates[d]
        BY <1>1, <2>3, <3>1 DEF KeyInv, KeptCerts
      <3>2. CASE d = c /\ certificates'[d] = request[r].seenCert
        BY <1>1, <3>2 DEF KeyInv
      <3> QED
        BY <2>2, <2>3, <3>1, <3>2 DEF KeptCerts
    <2> QED
      BY <1>1, <1>4, <1>5, <1>6, <2>1, <2>3 DEF KeyInv
  <1>8. CASE Download(r)
    <2>1. CASE c \in KeptCerts
      <3> DEFINE n == request[r].seenCert.downloads + 1
      <3>1. c \notin raced => request[r].seenCert.downloads = 0 /\ handed[c] = 0 /\ n = 1
        BY <1>1, <1>2, <1>8, <1>t DEF KeyInv, Download, At
      <3>2. \A d \in CertificateIds : handed'[d] = IF d = c THEN handed[c] + 1 ELSE handed[d]
        BY <1>8, <1>t, <2>1 DEF Download
      <3>3. \A d \in CertificateIds : certificates'[d] =
               IF d = c THEN [certificates[c] EXCEPT !.downloads = n] ELSE certificates[d]
        BY <1>8, <1>t, <2>1 DEF Download, SaveCert
      <3>4. certificates[c] \in CertificateRows
        BY <2>1, TablesTyped DEF KeptCerts
      <3>5. [certificates[c] EXCEPT !.downloads = n].downloads = n
        BY <3>4 DEF CertificateRows
      <3>6. c \notin raced => certificates'[c].downloads = 1 /\ handed'[c] = 1
        <4>1. certificates'[c] = [certificates[c] EXCEPT !.downloads = n] /\ handed'[c] = handed[c] + 1
          BY <1>2, <3>2, <3>3
        <4> QED
          BY <3>1, <3>5, <4>1
      <3>7. ASSUME NEW d \in KeptCerts'
            PROVE  /\ d \in CertificateIds
                   /\ d \notin raced => handed'[d] <= certificates'[d].downloads
                   /\ d # c => d \in KeptCerts /\ certificates'[d] = certificates[d]
        <4>1. d \in CertificateIds
          BY <3>7 DEF KeptCerts
        <4>2. CASE d = c
          BY <3>6, <4>1, <4>2
        <4>3. CASE d # c
          BY <1>1, <3>2, <3>3, <3>7, <4>1, <4>3 DEF KeyInv, KeptCerts
        <4> QED
          BY <4>1, <4>2, <4>3
      <3>8. \A d \in CertificateIds \ raced : handed'[d] <= 1
        BY <1>1, <3>2, <3>6 DEF KeyInv
      <3>9. \A s \in Requests : Writes(s)' /\ request[s].cert \notin raced => handed'[request[s].cert] = handed[request[s].cert]
        BY <1>4, <1>5, <3>2, WriterHolds
      <3>10. \A s \in Requests : Unissued(s)' => handed'[s] = handed[s]
        BY <1>6, <3>2 DEF CertificateIds
      <3> QED
        BY <1>1, <1>4, <1>5, <1>6, <3>7, <3>8, <3>9, <3>10 DEF KeyInv
    <2>2. CASE c \notin KeptCerts
      <3>1. handed' = handed /\ certificates' = certificates
        BY <1>8, <2>2 DEF Download
      <3> QED
        BY <1>1, <1>4, <1>6, <3>1 DEF KeyInv, KeptCerts
    <2> QED
      BY <2>1, <2>2
  <1> QED
    BY <1>7, <1>8

\* A step of a request that is no writer.
LEMMA KeyOther ==
    ASSUME TypeInv, FreshInv, KeyInv, NEW r \in Requests, Step(r),
           ~EditRead(r), ~DownloadRead(r), ~SaveCertificate(r), ~Download(r)
    PROVE  KeyInv'
  <1>1. \A s \in Requests \ {r} : request'[s] = request[s]
    <2>1. PICK q \in Handlers : Set(r, q)
      BY StepMoves DEF Moves
    <2> QED
      BY <2>1 DEF Set, TypeInv, TypeOK
  <1>s. ASSUME NEW q, Set(r, q) PROVE request'[r] = q
    BY <1>s DEF Set, TypeInv, TypeOK
  <1>d. Stop(r) => request'[r].step = "done"
    BY <1>s, IdleTyped, DoneHolds DEF Stop
  \* The reading steps leave the table alone.
  <1>2. CASE CreateRoot(r) \/ CreateRead(r) \/ ImportRead(r) \/ InsertAuthority(r) \/ UpdateRead(r)
             \/ SaveAuthority(r) \/ DeleteRead(r) \/ CountCertificates(r) \/ CountChildren(r)
             \/ RenewAuthorityRead(r) \/ RenewParentRead(r) \/ RenewAuthority(r) \/ IssueRead(r)
             \/ RenewRead(r) \/ RenewCA(r) \/ DeleteCertificateRead(r) \/ Fail(r)
    <2>1. UNCHANGED <<certificates, handed, raced>>
      BY <1>2 DEF tables, CreateRoot, CreateRead, ImportRead, InsertAuthority, UpdateRead,
                  SaveAuthority, DeleteRead, CountCertificates, CountChildren, RenewAuthorityRead,
                  RenewParentRead, RenewAuthority, IssueRead, RenewRead, RenewCA,
                  DeleteCertificateRead, Fail
    <2>2. /\ request'[r].step \notin {"saveCertificate", "download", "idle"}
          /\ request'[r].step \in {"issue", "renewCA", "renew"} =>
                request[r].step \in {"idle", "renewCA"}
      <3>1. request[r] \in Handlers /\ Idle \in Handlers
        BY TablesTyped, IdleTyped
      <3>2. CASE Stop(r)
        BY <1>d, <3>2
      <3>3. CASE CreateRoot(r) \/ CreateRead(r) \/ ImportRead(r) \/ InsertAuthority(r) \/ UpdateRead(r)
        <4>1. ~Stop(r) => request'[r].step \in {"urls", "insertAuthority", "saveAuthority"}
          BY <1>s, <3>1, <3>3 DEF CreateRoot, CreateRead, ImportRead, InsertAuthority, UpdateRead, Handlers
        <4> QED
          BY <3>2, <4>1
      <3>4. CASE SaveAuthority(r) \/ Fail(r)
        BY <3>2, <3>4 DEF SaveAuthority, Fail
      <3>5. CASE DeleteRead(r) \/ CountCertificates(r) \/ CountChildren(r) \/ DeleteCertificateRead(r)
        <4>1. ~Stop(r) => request'[r].step \in {"cascade", "countCertificates", "countChildren",
                                                "deleteCertificate"}
          BY <1>s, <3>1, <3>5
             DEF DeleteRead, CountCertificates, CountChildren, DeleteCertificateRead, Handlers
        <4> QED
          BY <3>2, <4>1
      <3>6. CASE RenewAuthorityRead(r) \/ RenewParentRead(r) \/ RenewAuthority(r)
        <4>1. ~Stop(r) => request'[r].step \in {"renewAuthority", "renewParent"}
          BY <1>s, <3>1, <3>6 DEF RenewAuthorityRead, RenewParentRead, RenewAuthority, Handlers
        <4> QED
          BY <3>2, <4>1
      <3>7. CASE IssueRead(r) \/ RenewRead(r)
        <4>1. request[r].step = "idle"
          BY <3>7 DEF IssueRead, RenewRead, At
        <4>2. CASE IssueRead(r)
          <5>1. PICK a \in KeptCAs, S \in NameSets, l \in Lives, own \in BOOLEAN :
                   Set(r, [Idle EXCEPT !.step = "issue", !.ca = a, !.names = S, !.life = l, !.own = own,
                                       !.seenCA = authorities[a]])
            BY <4>2 DEF IssueRead
          <5>2. request'[r].step = "issue"
            BY <1>s, <3>1, <5>1 DEF Handlers
          <5> QED
            BY <4>1, <5>2
        <4>3. CASE RenewRead(r)
          <5>1. PICK c \in KeptCerts, S \in NameSets \cup {{}}, l \in Lives \cup {0}, rekey \in BOOLEAN :
                   LET row == certificates[c] IN
                   Set(r, [Idle EXCEPT !.step = "renewCA", !.cert = c, !.names = S, !.own = rekey,
                                       !.life = IF l = 0 THEN row.until - row.from ELSE l,
                                       !.ca = row.authority, !.seenCert = row])
            BY <4>3 DEF RenewRead
          <5>2. request'[r].step = "renewCA"
            BY <1>s, <3>1, <5>1 DEF Handlers
          <5> QED
            BY <4>1, <5>2
        <4> QED
          BY <3>7, <4>2, <4>3
      <3>8. CASE RenewCA(r)
        <4>1. ~Stop(r) => request'[r].step = "renew" /\ request[r].step = "renewCA"
          BY <1>s, <3>1, <3>8 DEF RenewCA, At, Handlers
        <4> QED
          BY <3>2, <4>1
      <3> QED
        BY <1>2, <3>3, <3>4, <3>5, <3>6, <3>7, <3>8
    <2> QED
      BY <1>1, <2>1, <2>2, KeyFrame DEF Writes, Unissued, KeptCerts
  <1>3. CASE Delete(r) \/ DeleteCertificate(r)
    <2>1. UNCHANGED <<handed, raced>> /\ Stop(r)
      BY <1>3 DEF Delete, DeleteCertificate
    <2>2. \A c \in CertificateIds : certificates'[c] \in {certificates[c], NoRow}
      BY <1>3 DEF Delete, DeleteCertificate, SaveCert, tables, TypeInv, TypeOK
    <2>3. \A c \in KeptCerts' : c \in KeptCerts /\ certificates'[c] = certificates[c]
      BY <2>2, RowsKept DEF KeptCerts
    <2> QED
      BY <1>1, <1>d, <2>1, <2>3, KeyFrame DEF Writes, Unissued
  <1>4. CASE Issue(r) \/ Renew(r)
    <2>1. UNCHANGED <<handed, raced>> /\ Stop(r) /\ Unissued(r)
      BY <1>4 DEF Issue, Renew, At, Unissued
    <2>2. certificates \in [CertificateIds -> CertificateRows \cup {NoRow}]
      BY DEF TypeInv, TypeOK
    <2>3. \A ca, issuer, names, checked, life, key :
             CertificateRow(r, ca, issuer, names, checked, life, key).downloads = 0
      BY DEF CertificateRow
    <2>4. \A c \in CertificateIds : \/ certificates'[c] = certificates[c]
                                    \/ c = r /\ certificates'[c].downloads = 0
      <3> DEFINE q == request[r]  old == q.seenCert
      <3>1. CASE Issue(r)
        <4> DEFINE row == CertificateRow(r, q.ca, q.seenCA, q.names, TRUE, q.life, IF q.own THEN r ELSE None)
        <4>1. row.downloads = 0
          BY <2>3
        <4>2. certificates' = certificates \/ certificates' = [certificates EXCEPT ![r] = row]
          BY <3>1 DEF Issue, SaveCert
        <4> HIDE DEF row
        <4> QED
          BY <2>2, <4>1, <4>2
      <3>2. CASE Renew(r)
        <4> DEFINE same == q.names = {}
                   row  == CertificateRow(r, q.ca, q.seenCA, IF same THEN old.names ELSE q.names,
                                          same /\ old.checked, q.life, IF q.own THEN r ELSE old.key)
        <4>1. row.downloads = 0
          BY <2>3
        <4>2. certificates' = certificates \/ certificates' = [certificates EXCEPT ![r] = row]
          BY <3>2 DEF Renew, SaveCert
        <4> HIDE DEF row
        <4> QED
          BY <2>2, <4>1, <4>2
      <3> QED
        BY <1>4, <3>1, <3>2
    <2>5. \A c \in KeptCerts' : \/ c \in KeptCerts /\ certificates'[c] = certificates[c]
                                \/ c = r /\ Unissued(r) /\ certificates'[c].downloads = 0
      BY <2>1, <2>4 DEF KeptCerts
    <2> QED
      BY <1>1, <1>d, <2>1, <2>5, KeyFrame DEF Writes, Unissued
  <1> QED
    BY <1>2, <1>3, <1>4 DEF Step

LEMMA KeyNext == TypeInv /\ FreshInv /\ KeyInv /\ [Next]_vars => KeyInv'
  <1> SUFFICES ASSUME TypeInv, FreshInv, KeyInv, [Next]_vars PROVE KeyInv'
    OBVIOUS
  <1>1. ASSUME NEW r \in Requests, EditRead(r) PROVE KeyInv'
    <2>1. PICK c \in KeptCerts :
             /\ Set(r, [Idle EXCEPT !.step = "saveCertificate", !.cert = c, !.seenCert = certificates[c]])
             /\ Reads(c)
      BY <1>1 DEF EditRead
    <2> QED
      BY <1>1, <2>1, KeyRead DEF EditRead
  <1>2. ASSUME NEW r \in Requests, DownloadRead(r) PROVE KeyInv'
    <2>1. PICK c \in KeptCerts :
             /\ Authorized(certificates[c]) /\ Reads(c)
             /\ Set(r, [Idle EXCEPT !.step = "download", !.cert = c, !.seenCert = certificates[c]])
      BY <1>2 DEF DownloadRead
    <2>2. Policy = "once" => certificates[c].downloads = 0
      BY <2>1 DEF Authorized
    <2> QED
      BY <1>2, <2>1, <2>2, KeyRead DEF DownloadRead
  <1>3. CASE UNCHANGED <<certificates, request, handed, raced>>
    BY <1>3 DEF KeyInv, KeptCerts, Writes, Unissued
  <1> QED
    BY <1>1, <1>2, <1>3, KeyWrite, KeyOther DEF Next, Tick, vars, tables

\* Under a policy of one download a row hands its key out twice only if a
\* request read it while another was about to write it (AuthorizeKeyDownload
\* beside itself, or beside UpdateCertificate): no other sequence of calls loses
\* the count.  Of the key itself, which a renewal may copy to another row, it
\* says nothing.
THEOREM OnlyRacedLeaveTwice == Spec => []TwiceWereRaced
  <1>1. Init => KeyInv
    <2>1. \A c \in DOMAIN FirstCertificates : FirstCertificates[c].downloads \in Nat
      BY AuthoritiesAssumption, CertificatesTyped
    <2> SUFFICES ASSUME Init PROVE KeyInv
      OBVIOUS
    <2>2. \A c \in KeptCerts : handed[c] <= certificates[c].downloads
      BY <2>1, Starts DEF Init, CertificateIds
    <2>3. \A r \in Requests : ~Writes(r)
      BY Starts DEF Writes
    <2> QED
      BY <2>2, <2>3 DEF Init, KeyInv, CertificateIds
  <1>2. TypeInv /\ FreshInv /\ KeyInv /\ [Next]_vars => KeyInv'
    BY KeyNext
  <1>3. TypeInv /\ KeyInv => TwiceWereRaced
    BY DEF KeyInv, TwiceWereRaced, TypeInv, TypeOK
  <1> QED
    BY <1>1, <1>2, <1>3, TreeAlways, PTL DEF Spec
=============================================================================
