---------------------------- MODULE AccessProofs ----------------------------
(***************************************************************************)
(* The theorems about Access: accounts, sessions, second factors and       *)
(* tokens are what the code lets them be, what ends a session stays in     *)
(* force, and, while no two requests have had a row to write back at once, *)
(* every door asks for the second factor and no session outgrows its       *)
(* account.                                                                *)
(***************************************************************************)
EXTENDS Access, TLAPS

-----------------------------------------------------------------------------
(* What a request carries at each of its steps                             *)

GuardedOps == {route.op : route \in Routes}

\* The arguments a call of each operation comes with.
Sound(c) ==
    /\ c.op \in {"Login", "VerifyTwoFactor", "OAuthCallback", "CreateToken"} \cup UserOps => c.user \in Users
    /\ c.op \in {"Refresh", "Logout"} => c.pair \in Pairs
    /\ c.op = "OAuthCallback" => c.profile \in Profiles
    /\ c.op = "UpdateUser" => c.edit \in Edits
    /\ c.op = "CreateUser" => c.role \in Roles
    /\ c.op = "RevokeToken" => c.user \in Ids
    /\ c.op = "SaveOAuthProvider" => c.provider \in Providers

\* The steps that belong to each operation, and what is known there.
At(step, c, p) ==
    /\ step = "idle" => c.op = "none" /\ p = Nobody
    /\ step = "login" => c.op = "Login"
    /\ step = "verify" => c.op = "VerifyTwoFactor"
    /\ step \in {"refreshCheck", "refreshRead"} => c.op = "Refresh"
    /\ step = "signOut" => c.op = "Logout"
    /\ step \in {"provider", "subject", "email"} => c.op = "OAuthCallback"
    /\ step = "auth" => c.op \in GuardedOps /\ c.pair # None
    /\ step \in {"tokenRead", "tokenUser"} => c.op \in GuardedOps /\ c.token # None
    /\ step = "read" => c.op \in TwoFactorOps \cup {"UpdateUser", "DeleteUser", "ResetUserTwoFactor", "CreateToken"}
    /\ step = "count" => c.op \in {"UpdateUser", "DeleteUser"}
    /\ step = "spend" => c.op \in {"Login", "VerifyTwoFactor", "DisableTwoFactor", "RegenerateRecoveryCodes"}
    /\ step = "save" => c.op \in TwoFactorOps \cup {"UpdateUser", "ResetUserTwoFactor", "OAuthCallback"}
    /\ step = "delete" => c.op = "DeleteUser"
    /\ step = "insert" => c.op \in {"CreateUser", "CreateToken", "OAuthCallback"}
    /\ step = "end" => c.op = "UpdateUser"
    /\ step \in {"tokenGet", "tokenRevoke"} => c.op = "RevokeToken"
    /\ step = "providerSave" => c.op \in ProviderOps
    /\ step \in {"read", "spend", "save"} /\ c.op \in TwoFactorOps => p.user \in Users
    /\ step \in {"count", "save"} /\ c.op = "UpdateUser" => c.edit.role \in Roles \cup {None}
    /\ step = "spend" => c.code \in Codes
    /\ step = "save" /\ c.op = "EnableTwoFactor" => c.code \in Codes

TablesTyped ==
    /\ users \in [Users -> UserRows] /\ tokens \in [Ids -> TokenRows]
    /\ \A k \in Ids : tokens[k].kept => tokens[k].user \in Users
    /\ denied \in [Ids -> Nat] /\ deniedAll \in [Users -> Nat] /\ provider \in ProviderRows
ClientsTyped == pairs \subseteq Pairs /\ challenges \subseteq Challenges
CountsTyped  == started \in 0 .. MaxStates /\ pending \in 0 .. started /\ now \in Nat /\ failures \in Nat
MemoryTyped  ==
    /\ call \in [Requests -> Calls] /\ who \in [Requests -> Principals]
    /\ seen \in [Requests -> UserRows] /\ idp \in [Requests -> ProviderRows]
HistoryTyped ==
    /\ ended \subseteq Ids /\ unended \subseteq Users
    /\ accepted \subseteq [by : Requests, user : Users, code : Codes]
StepsTyped   ==
    /\ pc \in [Requests -> Steps] /\ clean \in BOOLEAN
    /\ \A r \in Requests : Sound(call[r]) /\ At(pc[r], call[r], who[r])

TypeInv == TablesTyped /\ ClientsTyped /\ CountsTyped /\ MemoryTyped /\ HistoryTyped /\ StepsTyped

-----------------------------------------------------------------------------
(* The calls                                                               *)

\* None is no id, and the row of an account that is not there is a row.
LEMMA NamesTyped ==
    /\ None \notin Ids /\ None \notin Pairs /\ None \notin Requests
    /\ Users \subseteq Ids /\ Requests \subseteq Ids /\ Users \cap Requests = {}
    /\ NoRow \in UserRows /\ NoToken \in TokenRows /\ Nobody \in Principals /\ Blank \in Calls
    /\ NoRow.state = "none"
  <1>1. None \notin Ids /\ None \notin Pairs /\ None \notin Requests /\ Users \cap Requests = {}
    BY AccessNamesAssumption, AccessFirstAssumption DEF Ids
  <1>2. (CHOOSE u \in Users : TRUE) \in Users
    BY AccessRowsAssumption
  <1>3. NoRow \in UserRows
    BY <1>2 DEF NoRow, UserRows, Roles
  <1>4. NoToken \in TokenRows /\ Nobody \in Principals
    BY DEF NoToken, TokenRows, Nobody, Principals, Roles
  <1>5. Blank \in Calls
    BY DEF Blank, Calls
  <1> QED
    BY <1>1, <1>3, <1>4, <1>5 DEF Ids, NoRow

\* Every code a caller may come with is a code.
LEMMA CodesPresented ==
    ASSUME TypeInv, NEW u \in Users, NEW code \in PresentableIfAny(u)
    PROVE  code \in Codes
  <1>1. users[u].secret # None /\ code \in Presentable(u)
    BY DEF PresentableIfAny
  <1>2. users[u] \in UserRows
    BY DEF TypeInv, TablesTyped
  <1>3. users[u].secret \in Ids /\ users[u].codes \subseteq Codes
    BY <1>1, <1>2 DEF UserRows
  <1>4. CASE \E step \in {s \in (now - Skew) .. (now + Skew) : s > 0} : code = Totp(users[u].secret, step)
    BY <1>3, <1>4, AccessTimesAssumption DEF Totp, Codes, TypeInv, CountsTyped
  <1>5. CASE code \in users[u].codes
    BY <1>3, <1>5
  <1>6. CASE \E a \in accepted : code = a.code
    BY <1>6 DEF TypeInv, HistoryTyped
  <1> QED
    BY <1>1, <1>4, <1>5, <1>6 DEF Presentable

\* What a call keeps when a code is put in.
LEMMA PresentingTyped ==
    ASSUME TypeInv, NEW c \in Calls, NEW u \in Users, NEW d \in Presenting(c, u)
    PROVE  /\ d \in Calls /\ d.op = c.op /\ d.pair = c.pair /\ d.token = c.token /\ d.user = c.user
  <1>1. PICK code \in PresentableIfAny(u) \cup {None} : d = [c EXCEPT !.code = code]
    BY DEF Presenting
  <1>2. code \in Codes \cup {None}
    BY <1>1, CodesPresented
  <1> QED
    BY <1>1, <1>2 DEF Calls

\* A caller comes with a live pair or with a token that is there.
LEMMA CallersTyped ==
    ASSUME TypeInv, NEW c \in Callers
    PROVE  /\ c \in Calls /\ c.op = "none"
           /\ \/ c.pair \in pairs /\ c.pair \in Pairs
              \/ c.pair = None /\ c.token \in Ids /\ tokens[c.token].user \in Users
  <1>1. CASE \E p \in pairs : c = [Blank EXCEPT !.pair = p]
    BY <1>1 DEF Blank, Calls, TypeInv, ClientsTyped
  <1>2. CASE \E k \in Ids : tokens[k].kept /\ c = [Blank EXCEPT !.token = k]
    BY <1>2 DEF Blank, Calls, TypeInv, TablesTyped
  <1> QED
    BY <1>1, <1>2 DEF Callers, Sessions, Bearing

Asked(op, k) == {[d EXCEPT !.op = op] : d \in Asking(op, k)}

\* A call with other arguments.
LEMMA CallUser ==
    ASSUME NEW k \in Calls, NEW u \in Ids
    PROVE  [k EXCEPT !.user = u] \in Calls
  BY DEF Calls
LEMMA CallEdit ==
    ASSUME NEW k \in Calls, NEW e \in Edits
    PROVE  [k EXCEPT !.edit = e] \in Calls
  BY DEF Calls
LEMMA CallRole ==
    ASSUME NEW k \in Calls, NEW e \in Roles
    PROVE  [k EXCEPT !.role = e] \in Calls
  BY DEF Calls
LEMMA CallScopes ==
    ASSUME NEW k \in Calls, NEW e \in SUBSET Scopes
    PROVE  [k EXCEPT !.scopes = e] \in Calls
  BY DEF Calls

\* The arguments of a call about an account, a token or the provider.
LEMMA AskingTyped ==
    ASSUME TypeInv, NEW op \in Ops, op \notin signInRoutes, NEW k \in Calls,
           op \in TwoFactorOps => \/ k.pair \in Pairs
                                  \/ k.pair = None /\ k.token \in Ids /\ tokens[k.token].user \in Users,
           NEW c \in Asked(op, k)
    PROVE  /\ c \in Calls /\ c.op = op /\ c.pair = k.pair /\ c.token = k.token /\ Sound(c)
  <1>d. PICK d \in Asking(op, k) : c = [d EXCEPT !.op = op]
    BY DEF Asked
  <1>g. ASSUME d \in Calls
        PROVE  /\ c \in Calls /\ c.op = op /\ c.pair = d.pair /\ c.token = d.token
               /\ c.user = d.user /\ c.edit = d.edit /\ c.role = d.role /\ c.profile = d.profile
               /\ c.provider = d.provider
    BY <1>d, <1>g DEF Calls
  <1>u. Known \subseteq Users /\ Users \subseteq Ids
    BY DEF Known, Ids
  <1>1. CASE op = "UpdateUser"
    <2>1. PICK a \in Known \X Edits : d = [k EXCEPT !.user = a[1], !.edit = a[2]]
      BY <1>1 DEF Asking, TwoFactorOps
    <2>2. a[1] \in Users /\ a[1] \in Ids /\ a[2] \in Edits
      BY <1>u, <2>1
    <2>3. d \in Calls /\ d.pair = k.pair /\ d.token = k.token /\ d.user = a[1] /\ d.edit = a[2]
      <3>1. PICK u \in Ids, e \in Edits : u = a[1] /\ e = a[2]
        BY <2>2
      <3>2. PICK b \in Calls : b = [k EXCEPT !.user = u]
        BY CallUser
      <3>3. d = [b EXCEPT !.edit = e]
        BY <2>1, <3>1, <3>2 DEF Calls
      <3>4. d \in Calls
        BY <3>3, CallEdit
      <3>5. b.pair = k.pair /\ b.token = k.token /\ b.user = u
        BY <3>2 DEF Calls
      <3>6. d.pair = b.pair /\ d.token = b.token /\ d.user = b.user /\ d.edit = e
        BY <3>3 DEF Calls
      <3> QED
        BY <3>1, <3>4, <3>5, <3>6
    <2> QED
      BY <1>1, <1>g, <2>1, <2>2, <2>3 DEF Sound, UserOps
  <1>2. CASE op \in {"DeleteUser", "ResetUserTwoFactor"}
    <2>1. PICK u \in Known : d = [k EXCEPT !.user = u]
      BY <1>2 DEF Asking, TwoFactorOps
    <2>3. d \in Calls /\ d.pair = k.pair /\ d.token = k.token /\ d.user = u
      BY <1>u, <2>1 DEF Calls
    <2> QED
      BY <1>2, <1>g, <1>u, <2>1, <2>3 DEF Sound, UserOps
  <1>3. CASE op = "CreateUser"
    <2>1. PICK a \in Users \X NewRoles : d = [k EXCEPT !.user = a[1], !.role = a[2]]
      BY <1>3 DEF Asking, TwoFactorOps
    <2>2. a[1] \in Users /\ a[1] \in Ids /\ a[2] \in Roles
      BY <1>u, <2>1, AccessRowsAssumption
    <2>3. d \in Calls /\ d.pair = k.pair /\ d.token = k.token /\ d.user = a[1] /\ d.role = a[2]
      <3>1. PICK u \in Ids, e \in Roles : u = a[1] /\ e = a[2]
        BY <2>2
      <3>2. PICK b \in Calls : b = [k EXCEPT !.user = u]
        BY CallUser
      <3>3. d = [b EXCEPT !.role = e]
        BY <2>1, <3>1, <3>2 DEF Calls
      <3>4. d \in Calls
        BY <3>3, CallRole
      <3>5. b.pair = k.pair /\ b.token = k.token /\ b.user = u
        BY <3>2 DEF Calls
      <3>6. d.pair = b.pair /\ d.token = b.token /\ d.user = b.user /\ d.role = e
        BY <3>3 DEF Calls
      <3> QED
        BY <3>1, <3>4, <3>5, <3>6
    <2> QED
      BY <1>3, <1>g, <2>1, <2>2, <2>3 DEF Sound, UserOps
  <1>4. CASE op = "CreateToken"
    <2>1. PICK a \in Known \X ScopeLists : d = [k EXCEPT !.user = a[1], !.scopes = a[2]]
      BY <1>4 DEF Asking, TwoFactorOps
    <2>2. a[1] \in Users /\ a[1] \in Ids /\ a[2] \subseteq Scopes
      BY <1>u, <2>1, AccessRowsAssumption
    <2>3. d \in Calls /\ d.pair = k.pair /\ d.token = k.token /\ d.user = a[1]
      <3>1. PICK u \in Ids, e \in SUBSET Scopes : u = a[1] /\ e = a[2]
        BY <2>2
      <3>2. PICK b \in Calls : b = [k EXCEPT !.user = u]
        BY CallUser
      <3>3. d = [b EXCEPT !.scopes = e]
        BY <2>1, <3>1, <3>2 DEF Calls
      <3>4. d \in Calls
        BY <3>3, CallScopes
      <3>5. b.pair = k.pair /\ b.token = k.token /\ b.user = u
        BY <3>2 DEF Calls
      <3>6. d.pair = b.pair /\ d.token = b.token /\ d.user = b.user /\ d.scopes = e
        BY <3>3 DEF Calls
      <3> QED
        BY <3>1, <3>4, <3>5, <3>6
    <2> QED
      BY <1>4, <1>g, <2>1, <2>2, <2>3 DEF Sound, UserOps
  <1>5. CASE op = "RevokeToken"
    <2>1. PICK t \in Ids : d = [k EXCEPT !.user = t]
      BY <1>5 DEF Asking, TwoFactorOps
    <2>3. d \in Calls /\ d.pair = k.pair /\ d.token = k.token /\ d.user = t
      BY <2>1 DEF Calls
    <2> QED
      BY <1>5, <1>g, <2>1, <2>3 DEF Sound, UserOps
  <1>6. CASE op = "SaveOAuthProvider"
    <2>1. PICK p \in Providers : d = [k EXCEPT !.provider = p]
      BY <1>6 DEF Asking, TwoFactorOps
    <2>3. d \in Calls /\ d.pair = k.pair /\ d.token = k.token /\ d.provider = p
      BY <2>1 DEF Calls
    <2> QED
      BY <1>6, <1>g, <2>1, <2>3 DEF Sound, UserOps
  <1>7. CASE op \in TwoFactorOps \ {"SetupTwoFactor"}
    <2>1. PICK u \in Users : d \in Presenting(k, u)
      <3>1. d \in Presenting(k, IF k.pair # None THEN k.pair.user ELSE tokens[k.token].user)
        BY <1>7 DEF Asking, TwoFactorOps
      <3>2. (IF k.pair # None THEN k.pair.user ELSE tokens[k.token].user) \in Users
        BY <1>7, NamesTyped DEF Pairs
      <3> QED
        BY <3>1, <3>2
    <2>2. d \in Calls /\ d.pair = k.pair /\ d.token = k.token
      BY <2>1, PresentingTyped
    <2> QED
      BY <1>7, <1>g, <2>2 DEF Sound, UserOps, TwoFactorOps
  <1>8. CASE op \notin (TwoFactorOps \ {"SetupTwoFactor"}) \cup UserOps \cup TokenOps \cup {"SaveOAuthProvider"}
    <2>1. d = k
      BY <1>8 DEF Asking, UserOps, TokenOps
    <2> QED
      BY <1>8, <1>d, <2>1 DEF Calls, Sound, UserOps, TokenOps, signInRoutes
  <1> QED
    BY <1>1, <1>2, <1>3, <1>4, <1>5, <1>6, <1>7, <1>8 DEF UserOps, TokenOps

\* The calls without a session, and what they are asked.
LEMMA SignInTyped ==
    ASSUME TypeInv, NEW op \in Ops, op \in signInRoutes, NEW d \in SignInCalls(op), NEW c, c = [d EXCEPT !.op = op]
    PROVE  /\ c \in Calls /\ c.op = op /\ Sound(c)
           /\ c.pair = None \/ c.pair \in pairs
  <1>u. Users \subseteq Ids /\ pairs \subseteq Pairs /\ Blank \in Calls
    BY NamesTyped DEF TypeInv, ClientsTyped
  <1>s. op \notin UserOps \cup TokenOps \cup {"SaveOAuthProvider"}
    BY DEF signInRoutes, UserOps, TokenOps
  <1>1. CASE op = "Login"
    <2>1. PICK u \in Users : d \in Presenting([Blank EXCEPT !.user = u], u)
      BY <1>1 DEF SignInCalls
    <2>2. [Blank EXCEPT !.user = u] \in Calls
      BY <1>u DEF Calls
    <2>3. d \in Calls /\ d.pair = None /\ d.user = u
      BY <2>2, <2>1, PresentingTyped DEF Blank
    <2> QED
      BY <1>1, <1>s, <2>3 DEF Calls, Sound, TokenOps
  <1>2. CASE op = "VerifyTwoFactor"
    <2>1. PICK ch \in challenges : d \in Presenting([Blank EXCEPT !.user = ch.user], ch.user)
      BY <1>2 DEF SignInCalls
    <2>2. PICK u \in Users : u = ch.user
      BY DEF TypeInv, ClientsTyped, Challenges
    <2>3. [Blank EXCEPT !.user = u] \in Calls
      BY <1>u DEF Calls
    <2>4. d \in Calls /\ d.pair = None /\ d.user = u
      BY <2>3, <2>1, <2>2, PresentingTyped DEF Blank
    <2> QED
      BY <1>2, <1>s, <2>4 DEF Calls, Sound, TokenOps
  <1>3. CASE op \in {"Refresh", "Logout"}
    <2>1. PICK p \in pairs : d = [Blank EXCEPT !.pair = p]
      BY <1>3 DEF SignInCalls
    <2>2. p \in Pairs
      BY <1>u
    <2> QED
      BY <1>3, <1>s, <1>u, <2>1, <2>2 DEF Calls, Sound, TokenOps, Blank
  <1>4. CASE op = "OAuthCallback"
    <2>1. PICK p \in Profiles : d = [Blank EXCEPT !.profile = p, !.user = p.email]
      BY <1>4 DEF SignInCalls
    <2>2. p.email \in Users /\ p.email \in Ids
      BY <1>u DEF Profiles
    <2> QED
      BY <1>4, <1>s, <1>u, <2>1, <2>2 DEF Calls, Sound, TokenOps, Blank
  <1>5. CASE op \notin {"Login", "VerifyTwoFactor", "Refresh", "Logout", "OAuthCallback"}
    <2>1. d = Blank
      BY <1>5 DEF SignInCalls
    <2> QED
      BY <1>5, <1>s, <1>u, <2>1 DEF Calls, Sound, TokenOps, UserOps, Blank
  <1> QED
    BY <1>1, <1>2, <1>3, <1>4, <1>5

\* Which operations are behind the guards.
LEMMA OpsGuarded ==
    /\ Ops \subseteq signInRoutes \cup GuardedOps /\ GuardedOps \cap signInRoutes = {}
    /\ ModelledOps \cap signInRoutes = {} /\ "none" \notin GuardedOps
    /\ ModelledOps \subseteq GuardedOps
  <1>1. Ops \subseteq signInRoutes \cup GuardedOps
    BY AccessOpsAssumption DEF GuardedOps
  <1>2. GuardedOps \cap signInRoutes = {}
    BY GuardedOnce DEF GuardedOps
  <1>3. ModelledOps \cap signInRoutes = {}
    BY DEF ModelledOps, TwoFactorOps, UserOps, TokenOps, ProviderOps, signInRoutes
  <1>4. ASSUME NEW op \in TwoFactorOps PROVE op \in GuardedOps
    <2>1. [op |-> op, roles |-> Anyone, scope |-> NoScope, changes |-> TRUE] \in twoFactorRoutes
      BY DEF TwoFactorOps, twoFactorRoutes, Unguarded
    <2> QED
      BY <2>1 DEF GuardedOps, Routes
  <1>5. ASSUME NEW op \in ProviderOps PROVE op \in GuardedOps
    <2>1. [op |-> op, roles |-> Admins, scope |-> <<"settings", "write">>, changes |-> TRUE] \in oauthRoutes
      BY DEF ProviderOps, oauthRoutes, Guard
    <2> QED
      BY <2>1 DEF GuardedOps, Routes
  <1>7. ASSUME NEW op \in UserOps PROVE op \in GuardedOps
    <2>1. [op |-> op, roles |-> Admins, scope |-> <<"users", "write">>, changes |-> TRUE] \in userRoutes
      BY DEF UserOps, userRoutes, Guard
    <2> QED
      BY <2>1 DEF GuardedOps, Routes
  <1>8. ASSUME NEW op \in TokenOps PROVE op \in GuardedOps
    <2>1. [op |-> op, roles |-> Anyone, scope |-> <<"tokens", "write">>, changes |-> TRUE] \in tokenRoutes
      BY DEF TokenOps, tokenRoutes, Guard
    <2> QED
      BY <2>1 DEF GuardedOps, Routes
  <1>6. "none" \notin GuardedOps
    BY DEF GuardedOps, Routes, systemRoutes, sessionRoutes, twoFactorRoutes, oauthRoutes, authorityRoutes,
           certificateRoutes, userRoutes, tokenRoutes, notificationRoutes, deploymentRoutes,
           externalAccountRoutes, operationsRoutes, Guard, Unguarded
  <1> QED
    BY <1>1, <1>2, <1>3, <1>4, <1>5, <1>6, <1>7, <1>8 DEF ModelledOps

\* Every call that can be made.
LEMMA RequestingTyped ==
    ASSUME TypeInv, NEW op \in Ops,
           NEW c \in Requesting(op) \cup IF op \in UserOps THEN Commanding(op) ELSE {}
    PROVE  /\ c \in Calls /\ c.op = op /\ Sound(c)
           /\ c.pair = None \/ c.pair \in pairs
           /\ \/ op \in signInRoutes
              \/ op \in GuardedOps \ signInRoutes /\ (c.pair # None \/ c.token # None \/ op \in UserOps)
  <1>1. CASE op \in signInRoutes
    <2>1. op \notin UserOps
      BY <1>1, OpsGuarded DEF ModelledOps
    <2>2. PICK d \in SignInCalls(op) : c = [d EXCEPT !.op = op]
      BY <1>1, <2>1 DEF Requesting
    <2> QED
      BY <1>1, <2>2, SignInTyped
  <1>2. CASE op \notin signInRoutes /\ c \in Requesting(op)
    <2>2. PICK k \in Callers : c \in Asked(op, k)
      BY <1>2 DEF Requesting, Asked
    <2>3. /\ k \in Calls
          /\ \/ k.pair \in pairs /\ k.pair \in Pairs
             \/ k.pair = None /\ k.token \in Ids /\ tokens[k.token].user \in Users
      BY CallersTyped
    <2>4. c \in Calls /\ c.op = op /\ c.pair = k.pair /\ c.token = k.token /\ Sound(c)
      BY <1>2, <2>2, <2>3, AskingTyped
    <2> QED
      BY <1>2, <2>3, <2>4, OpsGuarded, NamesTyped
  <1>3. CASE op \in UserOps /\ c \in Commanding(op)
    <2>1. c \in Asked(op, Blank)
      BY <1>3 DEF Commanding, Asked
    <2>2. op \notin signInRoutes /\ op \notin TwoFactorOps /\ op \in GuardedOps
      BY <1>3, OpsGuarded DEF ModelledOps, UserOps, TwoFactorOps
    <2>3. Blank \in Calls /\ Blank.pair = None
      BY NamesTyped DEF Blank
    <2>4. c \in Calls /\ c.op = op /\ c.pair = None /\ Sound(c)
      BY <2>1, <2>2, <2>3, AskingTyped
    <2> QED
      BY <1>3, <2>2, <2>4
  <1> QED
    BY <1>1, <1>2, <1>3

-----------------------------------------------------------------------------
(* Types: what a step does not touch keeps its type                        *)

\* The type invariant is more than TypeOK says.
LEMMA TypeInvOK == TypeInv => TypeOK
  BY DEF TypeInv, TypeOK, TablesTyped, ClientsTyped, CountsTyped, MemoryTyped, HistoryTyped, StepsTyped

LEMMA TypedFrames ==
    /\ TablesTyped /\ UNCHANGED tables => TablesTyped'
    /\ ClientsTyped /\ UNCHANGED clients => ClientsTyped'
    /\ CountsTyped /\ UNCHANGED <<started, pending, now, failures>> => CountsTyped'
    /\ MemoryTyped /\ UNCHANGED <<call, memory>> => MemoryTyped'
    /\ HistoryTyped /\ UNCHANGED history => HistoryTyped'
  BY DEF TablesTyped, ClientsTyped, CountsTyped, MemoryTyped, HistoryTyped, tables, clients, memory, history

\* A request that is done knows nothing any more.
LEMMA DoneAt == \A c, p : At("done", c, p)
  BY DEF At

\* Where the handlers begin.
LEMMA HandlerAt ==
    ASSUME NEW c, NEW p, c.op \in GuardedOps, c.op \in TwoFactorOps => p.user \in Users
    PROVE  /\ Handler(c.op) \in {"tokenGet", "insert", "providerSave", "read", "done"}
           /\ Handler(c.op) = "insert" => c.op = "CreateUser"
           /\ At(Handler(c.op), c, p)
  <1>1. CASE c.op = "RevokeToken"
    <2>1. Handler(c.op) = "tokenGet"
      BY <1>1 DEF Handler, ProviderOps
    <2> QED
      BY <1>1, <2>1 DEF At
  <1>2. CASE c.op = "CreateUser"
    <2>1. Handler(c.op) = "insert"
      BY <1>2 DEF Handler, ProviderOps
    <2> QED
      BY <1>2, <2>1 DEF At
  <1>3. CASE c.op \in ProviderOps
    <2>1. Handler(c.op) = "providerSave"
      BY <1>3 DEF Handler, ProviderOps
    <2> QED
      BY <1>3, <2>1 DEF At
  <1>4. CASE c.op \in TwoFactorOps \cup {"UpdateUser", "DeleteUser", "ResetUserTwoFactor", "CreateToken"}
    <2>1. c.op \in ModelledOps \ ({"RevokeToken", "CreateUser"} \cup ProviderOps)
      BY <1>4 DEF ModelledOps, TwoFactorOps, UserOps, TokenOps, ProviderOps
    <2>2. Handler(c.op) = "read"
      BY <1>4, <2>1 DEF Handler, ModelledOps, TwoFactorOps, UserOps, TokenOps, ProviderOps
    <2> QED
      BY <1>4, <2>2 DEF At
  <1>5. CASE c.op \notin ModelledOps
    <2>1. Handler(c.op) = "done"
      BY <1>5 DEF Handler, ModelledOps, UserOps, TokenOps, ProviderOps
    <2> QED
      BY <2>1, DoneAt
  <1> QED
    BY <1>1, <1>2, <1>3, <1>4, <1>5 DEF ModelledOps, UserOps, TokenOps

\* Where a call begins.
LEMMA FirstStepAt ==
    ASSUME NEW c,
           \/ c.op \in signInRoutes
           \/ c.op \in GuardedOps \ signInRoutes /\ (c.pair # None \/ c.token # None \/ c.op \in UserOps)
    PROVE  /\ FirstStep(c) \in {"login", "verify", "refreshCheck", "provider", "signOut", "authorize",
                                "auth", "tokenRead", "read", "insert", "done"}
           /\ FirstStep(c) = "insert" => c.op = "CreateUser"
           /\ At(FirstStep(c), c, Nobody)
  <1>1. CASE c.op \in signInRoutes
    <2>1. FirstStep(c) = FirstSignInStep(c.op)
      BY <1>1 DEF FirstStep
    <2> QED
      BY <1>1, <2>1 DEF FirstSignInStep, signInRoutes, At
  <1>2. CASE c.op \notin signInRoutes /\ (c.pair # None \/ c.token # None)
    <2>1. FirstStep(c) = IF c.pair # None THEN "auth" ELSE "tokenRead"
      BY <1>2 DEF FirstStep
    <2> QED
      BY <1>2, <2>1 DEF At
  <1>3. CASE c.op \notin signInRoutes /\ c.pair = None /\ c.token = None
    <2>1. FirstStep(c) = Handler(c.op)
      BY <1>3 DEF FirstStep
    <2>2. c.op \in UserOps /\ c.op \notin TwoFactorOps
      BY <1>3 DEF UserOps, TwoFactorOps
    <2>3. Handler(c.op) \in {"insert", "read"}
      BY <2>2 DEF Handler, UserOps, ProviderOps, ModelledOps
    <2> QED
      BY <1>3, <2>1, <2>2, <2>3, HandlerAt
  <1> QED
    BY <1>1, <1>2, <1>3

\* A step of one request is a step of that request only.
LEMMA StepTyped ==
    ASSUME TypeInv, NEW r \in Requests, NEW t \in Steps, Goto(r, t),
           TablesTyped', ClientsTyped', CountsTyped', MemoryTyped', HistoryTyped',
           \A q \in Requests \ {r} : call'[q] = call[q] /\ who'[q] = who[q],
           Sound(call'[r]), At(t, call'[r], who'[r])
    PROVE  TypeInv'
  <1>1. pc' \in [Requests -> Steps] /\ clean' \in BOOLEAN
    BY DEF Goto, TypeInv, StepsTyped
  <1>2. \A q \in Requests : pc'[q] = IF q = r THEN t ELSE pc[q]
    BY DEF Goto, TypeInv, StepsTyped
  <1>3. \A q \in Requests : Sound(call'[q]) /\ At(pc'[q], call'[q], who'[q])
    BY <1>2 DEF TypeInv, StepsTyped
  <1>4. StepsTyped'
    BY <1>1, <1>3 DEF StepsTyped
  <1> QED
    BY <1>4 DEF TypeInv

\* A step that leaves the call as it is.
LEMMA MoveTyped ==
    ASSUME TypeInv, NEW r \in Requests, NEW t \in Steps, Goto(r, t), UNCHANGED <<call, who>>,
           TablesTyped', ClientsTyped', CountsTyped', MemoryTyped', HistoryTyped',
           At(t, call[r], who[r])
    PROVE  TypeInv'
  BY StepTyped DEF TypeInv, StepsTyped

-----------------------------------------------------------------------------
(* Types: the steps                                                        *)

LEMMA InitTyped == Init => TypeInv
  <1> SUFFICES ASSUME Init PROVE TypeInv
    OBVIOUS
  <1> USE NamesTyped, AccessTimesAssumption, AccessNamesAssumption, AccessRowsAssumption DEF Init
  <1>1. ASSUME NEW u \in SignedIn
        PROVE  [sid |-> u, user |-> u, role |-> FirstRows[u].role, at |-> 0] \in Pairs
    <2>1. u \in Users /\ u \in Ids /\ FirstRows[u] \in UserRows
      OBVIOUS
    <2> QED
      BY <2>1 DEF Pairs, UserRows
  <1>2. ClientsTyped
    BY <1>1 DEF ClientsTyped
  <1>3. \A k \in Bearers : [kept |-> TRUE, user |-> k, scopes |-> FirstScopes, revoked |-> FALSE] \in TokenRows
    BY DEF TokenRows
  <1>4. TablesTyped
    BY <1>3 DEF TablesTyped, NoToken
  <1>5. CountsTyped
    BY DEF CountsTyped
  <1>6. MemoryTyped
    BY DEF MemoryTyped
  <1>7. HistoryTyped
    BY DEF HistoryTyped
  <1>8. Sound(Blank) /\ At("idle", Blank, Nobody)
    BY DEF Sound, At, Blank, UserOps, TwoFactorOps, ProviderOps
  <1>9. StepsTyped
    BY <1>8 DEF StepsTyped, Steps
  <1> QED
    BY <1>2, <1>4, <1>5, <1>6, <1>7, <1>9 DEF TypeInv

LEMMA BeginTyped ==
    ASSUME TypeInv, NEW r \in Requests, Begin(r)
    PROVE  TypeInv'
  <1>0. PICK op \in Ops : \E c \in Requesting(op) \cup IF op \in UserOps THEN Commanding(op) ELSE {} :
           call' = [call EXCEPT ![r] = c] /\ Goto(r, FirstStep(c))
    BY DEF Begin
  <1>1. PICK c \in Requesting(op) \cup IF op \in UserOps THEN Commanding(op) ELSE {} :
           call' = [call EXCEPT ![r] = c] /\ Goto(r, FirstStep(c))
    BY <1>0
  <1>2. /\ c \in Calls /\ Sound(c)
        /\ \/ c.op \in signInRoutes
           \/ c.op \in GuardedOps \ signInRoutes /\ (c.pair # None \/ c.token # None \/ c.op \in UserOps)
    BY RequestingTyped
  <1>3. who[r] = Nobody
    BY DEF Begin, TypeInv, StepsTyped, At
  <1>4. FirstStep(c) \in Steps /\ At(FirstStep(c), c, Nobody)
    BY <1>2, FirstStepAt DEF Steps, WritingSteps
  <1>5. UNCHANGED <<tables, clients, pending, started, now, memory, history, failures>>
    BY DEF Begin
  <1>6. call' \in [Requests -> Calls] /\ call'[r] = c /\ \A q \in Requests \ {r} : call'[q] = call[q]
    BY <1>1, <1>2 DEF TypeInv, MemoryTyped
  <1>7. UNCHANGED who
    BY <1>5 DEF memory
  <1>8. TablesTyped' /\ ClientsTyped' /\ CountsTyped' /\ HistoryTyped'
    BY <1>5, TypedFrames DEF TypeInv
  <1>9. MemoryTyped'
    BY <1>5, <1>6 DEF TypeInv, MemoryTyped, memory
  <1> QED
    BY <1>1, <1>2, <1>3, <1>4, <1>6, <1>7, <1>8, <1>9, StepTyped

\* Past the guards.
LEMMA EnterTyped ==
    ASSUME TypeInv, NEW r \in Requests, NEW p \in Principals, p.user \in Users, Enter(r, p),
           call[r].op \in GuardedOps,
           UNCHANGED <<tables, clients, pending, started, now, seen, idp, history, failures>>
    PROVE  TypeInv'
  <1>1. TablesTyped' /\ ClientsTyped' /\ CountsTyped' /\ HistoryTyped'
    BY TypedFrames DEF TypeInv
  <1>2. CASE Admitted(r, p)
    <2>1. who' = [who EXCEPT ![r] = p] /\ call' = Addressed(r, p) /\ Goto(r, Handler(call[r].op))
      BY <1>2 DEF Enter
    <2>2. call[r] \in Calls /\ Sound(call[r]) /\ p.user \in Ids
      BY NamesTyped DEF TypeInv, MemoryTyped, StepsTyped
    <2>3. PICK c \in Calls : c.op = call[r].op /\ call' = [call EXCEPT ![r] = c] /\ Sound(c)
      <3>1. CASE call[r].op = "CreateToken" /\ p.role # "admin"
        <4> DEFINE c == [call[r] EXCEPT !.user = p.user]
        <4>1. c \in Calls /\ c.op = call[r].op
          BY <2>2 DEF Calls
        <4>2. Sound(c)
          BY <3>1, <4>1 DEF Sound, Calls
        <4>3. call' = [call EXCEPT ![r] = c]
          BY <2>1, <3>1 DEF Addressed, TypeInv, MemoryTyped
        <4> QED
          BY <4>1, <4>2, <4>3
      <3>2. CASE ~(call[r].op = "CreateToken" /\ p.role # "admin")
        <4>1. call' = [call EXCEPT ![r] = call[r]]
          BY <2>1, <3>2 DEF Addressed, TypeInv, MemoryTyped
        <4> QED
          BY <2>2, <4>1
      <3> QED
        BY <3>1, <3>2
    <2>4. Handler(c.op) \in Steps /\ At(Handler(c.op), c, p)
      BY <2>3, HandlerAt DEF Steps, WritingSteps
    <2>5. /\ MemoryTyped' /\ call'[r] = c /\ who'[r] = p
          /\ \A q \in Requests \ {r} : call'[q] = call[q] /\ who'[q] = who[q]
      BY <2>1, <2>3 DEF TypeInv, MemoryTyped
    <2> QED
      BY <1>1, <2>1, <2>3, <2>4, <2>5, StepTyped
  <1>3. CASE ~Admitted(r, p)
    <2>1. Goto(r, "done") /\ UNCHANGED <<who, call>>
      BY <1>3 DEF Enter, Stop
    <2>2. MemoryTyped'
      BY <2>1, TypedFrames DEF TypeInv, memory
    <2> QED
      BY <1>1, <2>1, <2>2, DoneAt, MoveTyped DEF Steps
  <1> QED
    BY <1>2, <1>3

LEMMA AuthTyped ==
    ASSUME TypeInv, NEW r \in Requests, Authenticate(r) \/ TokenRead(r) \/ TokenUser(r)
    PROVE  TypeInv'
  <1>1. call[r] \in Calls /\ At(pc[r], call[r], who[r])
    BY DEF TypeInv, MemoryTyped, StepsTyped
  <1>2. CASE Authenticate(r)
    <2>1. call[r].op \in GuardedOps /\ call[r].pair \in Pairs
      BY <1>1, <1>2 DEF Authenticate, At, Calls
    <2>2. PICK p \in Pairs : p = call[r].pair
      BY <2>1
    <2>3. UNCHANGED <<tables, clients, pending, started, now, seen, idp, history, failures>>
      BY <1>2 DEF Authenticate
    <2>4. CASE Enter(r, [user |-> p.user, role |-> p.role, scopes |-> {}, token |-> None])
      <3>1. PICK w \in Principals : w = [user |-> p.user, role |-> p.role, scopes |-> {}, token |-> None]
        BY DEF Principals, Pairs
      <3>2. w.user \in Users
        BY <3>1 DEF Pairs
      <3> QED
        BY <2>1, <2>3, <2>4, <3>1, <3>2, EnterTyped
    <2>5. CASE Stop(r) /\ UNCHANGED <<who, call>>
      <3>1. TablesTyped' /\ ClientsTyped' /\ CountsTyped' /\ HistoryTyped' /\ MemoryTyped'
        BY <2>3, <2>5, TypedFrames DEF TypeInv, memory
      <3> QED
        BY <2>5, <3>1, DoneAt, MoveTyped DEF Stop, Steps
    <2> QED
      BY <1>2, <2>2, <2>4, <2>5 DEF Authenticate
  <1>3. CASE TokenRead(r)
    <2>1. PICK t \in {"tokenUser", "done"} : Goto(r, t)
      BY <1>3 DEF TokenRead, Stop
    <2>2. UNCHANGED <<tables, clients, memory, history, pending, started, now, call, failures>>
      BY <1>3 DEF TokenRead, Quiet
    <2>3. TablesTyped' /\ ClientsTyped' /\ CountsTyped' /\ HistoryTyped' /\ MemoryTyped'
      BY <2>2, TypedFrames DEF TypeInv
    <2>4. At(t, call[r], who[r])
      BY <1>1, <1>3, <2>1 DEF TokenRead, At
    <2> QED
      BY <2>1, <2>2, <2>3, <2>4, MoveTyped DEF Steps, memory
  <1>4. CASE TokenUser(r)
    <2>1. call[r].op \in GuardedOps /\ call[r].token \in Ids
      BY <1>1, <1>4 DEF TokenUser, At, Calls
    <2>2. PICK k \in Ids : k = call[r].token
      BY <2>1
    <2>3. UNCHANGED <<tables, clients, pending, started, now, seen, idp, history, failures>>
      BY <1>4 DEF TokenUser
    <2>4. CASE /\ tokens[k].kept
               /\ Enter(r, [user |-> tokens[k].user, role |-> users[tokens[k].user].role,
                            scopes |-> tokens[k].scopes, token |-> k])
      <3>1. tokens[k] \in TokenRows /\ tokens[k].user \in Users
        BY <2>4 DEF TypeInv, TablesTyped
      <3>2. users[tokens[k].user] \in UserRows
        BY <3>1 DEF TypeInv, TablesTyped
      <3>3. PICK w \in Principals : w = [user |-> tokens[k].user, role |-> users[tokens[k].user].role,
                                         scopes |-> tokens[k].scopes, token |-> k]
        BY <3>1, <3>2 DEF Principals, TokenRows, UserRows
      <3>4. w.user \in Users
        BY <3>1, <3>3
      <3> QED
        BY <2>1, <2>3, <2>4, <3>3, <3>4, EnterTyped
    <2>5. CASE Stop(r) /\ UNCHANGED <<who, call>>
      <3>1. TablesTyped' /\ ClientsTyped' /\ CountsTyped' /\ HistoryTyped' /\ MemoryTyped'
        BY <2>3, <2>5, TypedFrames DEF TypeInv, memory
      <3> QED
        BY <2>5, <3>1, DoneAt, MoveTyped DEF Stop, Steps
    <2> QED
      BY <1>4, <2>2, <2>4, <2>5 DEF TokenUser
  <1> QED
    BY <1>2, <1>3, <1>4

\* A session is issued in the name of the request that opens it.
LEMMA IssueTyped ==
    ASSUME TypeInv, NEW r \in Requests, NEW u \in Users, NEW row \in UserRows,
           \/ Issue(r, u, row) /\ UNCHANGED challenges
           \/ IssueChallenge(u) /\ UNCHANGED pairs
           \/ UNCHANGED clients
    PROVE  ClientsTyped'
  <1>1. [sid |-> r, user |-> u, role |-> row.role, at |-> now] \in Pairs
    BY NamesTyped DEF Pairs, UserRows, TypeInv, CountsTyped
  <1>2. [user |-> u, until |-> now + ChallengeTTL] \in Challenges
    BY AccessTimesAssumption DEF Challenges, TypeInv, CountsTyped
  <1> QED
    BY <1>1, <1>2 DEF Issue, IssueChallenge, TypeInv, ClientsTyped, clients

\* What accepting a code leaves of a row.
LEMMA SpentTyped ==
    ASSUME NEW row \in UserRows, NEW code \in Codes
    PROVE  /\ Spent(row, code) \in UserRows
           /\ \A f \in {"state", "role", "active", "factor", "subject"} : Spent(row, code)[f] = row[f]
  BY DEF Spent, UserRows, Codes

LEMMA CompleteTyped ==
    ASSUME TypeInv, NEW r \in Requests, NEW u \in Users, NEW row \in UserRows, Complete(r, u, row),
           call[r].op \in {"Login", "VerifyTwoFactor"}
    PROVE  /\ ClientsTyped'
           /\ \E t \in {"spend", "done"} : Goto(r, t) /\ (t = "spend" => call[r].code \in Codes)
           /\ \/ UNCHANGED seen
              \/ call[r].code \in Codes /\ seen' = [seen EXCEPT ![r] = Spent(row, call[r].code)]
  <1>1. call[r].code \in Codes \cup {None}
    BY DEF TypeInv, MemoryTyped, Calls
  <1>2. CASE Issue(r, u, row) /\ Stop(r) /\ UNCHANGED <<seen, challenges>>
    BY <1>2, IssueTyped DEF Stop
  <1>3. CASE /\ Accepts(row, call[r].code) /\ Goto(r, "spend") /\ UNCHANGED clients
             /\ seen' = [seen EXCEPT ![r] = Spent(row, call[r].code)]
    BY <1>1, <1>3, TypedFrames DEF Accepts, TypeInv
  <1>4. CASE Stop(r) /\ UNCHANGED <<clients, seen>>
    BY <1>4, TypedFrames DEF TypeInv, Stop
  <1> QED
    BY <1>2, <1>3, <1>4 DEF Complete

\* The account a call turns out to be about.
LEMMA NamedTyped ==
    ASSUME TypeInv, NEW r \in Requests, NEW u \in Users, call' = [call EXCEPT ![r].user = u]
    PROVE  /\ call' \in [Requests -> Calls] /\ Sound(call'[r]) /\ call'[r].user = u
           /\ \A q \in Requests \ {r} : call'[q] = call[q]
           /\ \A f \in {"op", "pair", "token", "code", "edit", "role", "scopes", "profile", "provider"} :
                 call'[r][f] = call[r][f]
           /\ \A t, p : At(t, call[r], p) => At(t, call'[r], p)
  <1>1. call[r] \in Calls /\ Sound(call[r]) /\ u \in Ids
    BY NamesTyped DEF TypeInv, MemoryTyped, StepsTyped
  <1>2. call'[r] = [call[r] EXCEPT !.user = u] /\ \A q \in Requests \ {r} : call'[q] = call[q]
    BY DEF TypeInv, MemoryTyped
  <1>3. call'[r] \in Calls
    BY <1>1, <1>2 DEF Calls
  <1>4. call' \in [Requests -> Calls]
    BY <1>2, <1>3 DEF TypeInv, MemoryTyped
  <1>5. /\ \A f \in {"op", "pair", "token", "code", "edit", "role", "scopes", "profile", "provider"} :
              call'[r][f] = call[r][f]
        /\ call'[r].user = u
    BY <1>1, <1>2 DEF Calls
  <1>6. /\ call'[r].op = call[r].op /\ call'[r].pair = call[r].pair /\ call'[r].token = call[r].token
        /\ call'[r].code = call[r].code /\ call'[r].edit = call[r].edit /\ call'[r].role = call[r].role
        /\ call'[r].profile = call[r].profile /\ call'[r].provider = call[r].provider
    BY <1>5
  <1>7. Sound(call'[r])
    BY <1>1, <1>5, <1>6 DEF Sound
  <1>8. \A t, p : At(t, call[r], p) => At(t, call'[r], p)
    BY <1>6 DEF At
  <1> QED
    BY <1>2, <1>4, <1>5, <1>7, <1>8

LEMMA LoginTyped ==
    ASSUME TypeInv, NEW r \in Requests, Login(r)
    PROVE  TypeInv'
  <1>1. call[r].op = "Login"
    BY DEF Login, TypeInv, StepsTyped, At
  <1>2. UNCHANGED <<tables, pending, started, now, who, idp, history, failures>>
    BY DEF Login
  <1>3. TablesTyped' /\ CountsTyped' /\ HistoryTyped'
    BY <1>2, TypedFrames DEF TypeInv
  <1>4. PICK u \in Users :
           IF ~(Kept(u) /\ users[u].password /\ users[u].active)
           THEN Stop(r) /\ UNCHANGED <<clients, seen, call>>
           ELSE /\ call' = [call EXCEPT ![r].user = u]
                /\ IF HasTwoFactor(users[u]) /\ call[r].code = None
                   THEN IssueChallenge(u) /\ Stop(r) /\ UNCHANGED <<pairs, seen>>
                   ELSE Complete(r, u, users[u])
    BY DEF Login
  <1>5. PICK row \in UserRows : row = users[u]
    BY DEF TypeInv, TablesTyped
  <1>6. CASE Stop(r) /\ UNCHANGED <<clients, seen, call>>
    <2>1. ClientsTyped' /\ MemoryTyped'
      BY <1>2, <1>6, TypedFrames DEF TypeInv, memory
    <2> QED
      BY <1>2, <1>3, <1>6, <2>1, DoneAt, MoveTyped DEF Stop, Steps
  <1>7. CASE /\ call' = [call EXCEPT ![r].user = u]
             /\ IssueChallenge(u) /\ Stop(r) /\ UNCHANGED <<pairs, seen>>
    <2>1. ClientsTyped'
      BY <1>5, <1>7, IssueTyped
    <2>2. /\ call' \in [Requests -> Calls] /\ Sound(call'[r]) /\ MemoryTyped'
          /\ \A q \in Requests \ {r} : call'[q] = call[q]
      BY <1>2, <1>7, NamedTyped DEF TypeInv, MemoryTyped
    <2> QED
      BY <1>2, <1>3, <1>7, <2>1, <2>2, DoneAt, StepTyped DEF Stop, Steps
  <1>8. CASE call' = [call EXCEPT ![r].user = u] /\ Complete(r, u, row)
    <2>1. /\ ClientsTyped'
          /\ \E t \in {"spend", "done"} : Goto(r, t) /\ (t = "spend" => call[r].code \in Codes)
          /\ \/ UNCHANGED seen
             \/ call[r].code \in Codes /\ seen' = [seen EXCEPT ![r] = Spent(row, call[r].code)]
      BY <1>1, <1>8, CompleteTyped
    <2>2. /\ call' \in [Requests -> Calls] /\ Sound(call'[r])
          /\ \A q \in Requests \ {r} : call'[q] = call[q]
          /\ \A t, p : At(t, call[r], p) => At(t, call'[r], p)
      BY <1>8, NamedTyped
    <2>3. MemoryTyped'
      BY <1>2, <2>1, <2>2, SpentTyped DEF TypeInv, MemoryTyped
    <2>4. PICK t \in {"spend", "done"} : Goto(r, t) /\ (t = "spend" => call[r].code \in Codes)
      BY <2>1
    <2>5. At(t, call[r], who[r])
      BY <1>1, <2>4 DEF At, TwoFactorOps
    <2> QED
      BY <1>2, <1>3, <2>1, <2>2, <2>3, <2>4, <2>5, StepTyped DEF Steps, WritingSteps
  <1> QED
    BY <1>4, <1>5, <1>6, <1>7, <1>8

LEMMA VerifyTyped ==
    ASSUME TypeInv, NEW r \in Requests, VerifyTwoFactor(r)
    PROVE  TypeInv'
  <1>1. call[r].op = "VerifyTwoFactor" /\ call[r].user \in Users
    BY DEF VerifyTwoFactor, TypeInv, StepsTyped, At, Sound
  <1>2. UNCHANGED <<tables, who, idp, history, pending, started, now, call, failures>>
    BY DEF VerifyTwoFactor, Quiet
  <1>3. TablesTyped' /\ CountsTyped' /\ HistoryTyped'
    BY <1>2, TypedFrames DEF TypeInv
  <1>4. PICK u \in Users : u = call[r].user
    BY <1>1
  <1>5. PICK row \in UserRows : row = users[u]
    BY DEF TypeInv, TablesTyped
  <1>6. CASE Stop(r) /\ UNCHANGED <<clients, seen>>
    <2>1. ClientsTyped' /\ MemoryTyped'
      BY <1>2, <1>6, TypedFrames DEF TypeInv, memory
    <2> QED
      BY <1>2, <1>3, <1>6, <2>1, DoneAt, MoveTyped DEF Stop, Steps
  <1>7. CASE Complete(r, u, row)
    <2>1. /\ ClientsTyped'
          /\ \E t \in {"spend", "done"} : Goto(r, t) /\ (t = "spend" => call[r].code \in Codes)
          /\ \/ UNCHANGED seen
             \/ call[r].code \in Codes /\ seen' = [seen EXCEPT ![r] = Spent(row, call[r].code)]
      BY <1>1, <1>7, CompleteTyped
    <2>2. MemoryTyped'
      BY <1>2, <2>1, SpentTyped DEF TypeInv, MemoryTyped
    <2>3. PICK t \in {"spend", "done"} : Goto(r, t) /\ (t = "spend" => call[r].code \in Codes)
      BY <2>1
    <2>4. At(t, call[r], who[r])
      BY <1>1, <2>3 DEF At, TwoFactorOps
    <2> QED
      BY <1>2, <1>3, <2>1, <2>2, <2>3, <2>4, MoveTyped DEF Steps, WritingSteps
  <1> QED
    BY <1>4, <1>5, <1>6, <1>7 DEF VerifyTwoFactor

\* Whose row a request writes.
LEMMA TargetTyped ==
    ASSUME TypeInv, NEW r \in Requests, pc[r] \in {"read", "count", "spend", "save", "delete", "end"}
    PROVE  Target(r) \in Users
  <1>1. Sound(call[r]) /\ At(pc[r], call[r], who[r])
    BY DEF TypeInv, StepsTyped
  <1>2. CASE call[r].op \in TwoFactorOps
    BY <1>1, <1>2 DEF At, Target, TwoFactorOps
  <1>3. CASE call[r].op \notin TwoFactorOps
    <2>1. call[r].op \in {"Login", "VerifyTwoFactor", "OAuthCallback", "CreateToken"} \cup UserOps
      BY <1>1, <1>3 DEF At, TwoFactorOps, UserOps
    <2> QED
      BY <1>1, <1>3, <2>1 DEF Sound, Target
  <1> QED
    BY <1>2, <1>3

LEMMA SpendTyped ==
    ASSUME TypeInv, NEW r \in Requests, Spend(r)
    PROVE  TypeInv'
  <1>1. PICK u \in Users : u = Target(r)
    BY TargetTyped DEF Spend
  <1>2. call[r].op \in {"Login", "VerifyTwoFactor", "DisableTwoFactor", "RegenerateRecoveryCodes"} /\ call[r].code \in Codes
    BY DEF Spend, TypeInv, StepsTyped, At
  <1>3. PICK row \in UserRows : row = seen[r]
    BY DEF TypeInv, MemoryTyped
  <1>4. /\ users' = [users EXCEPT ![u] = row]
        /\ accepted' = accepted \cup {[by |-> r, user |-> u, code |-> call[r].code]}
        /\ UNCHANGED <<denied, deniedAll, tokens, provider, challenges, who, seen, idp, ended, unended>>
        /\ UNCHANGED <<pending, started, now, call, failures>>
    BY <1>1, <1>3 DEF Spend, SaveUser, memory, Quiet
  <1>5. TablesTyped' /\ CountsTyped' /\ HistoryTyped' /\ MemoryTyped'
    BY <1>2, <1>4 DEF TypeInv, TablesTyped, CountsTyped, HistoryTyped, MemoryTyped
  <1>6. CASE Issue(r, u, row) /\ Stop(r)
    BY <1>4, <1>5, <1>6, IssueTyped, DoneAt, MoveTyped DEF Stop, Steps
  <1>7. CASE call[r].op \notin signInRoutes /\ Goto(r, "save") /\ UNCHANGED pairs
    <2>1. ClientsTyped'
      BY <1>4, <1>7 DEF TypeInv, ClientsTyped
    <2>2. At("spend", call[r], who[r])
      BY DEF Spend, TypeInv, StepsTyped
    <2>3. At("save", call[r], who[r])
      BY <1>2, <1>7, <2>2 DEF At, TwoFactorOps, signInRoutes
    <2> QED
      BY <1>4, <1>5, <1>7, <2>1, <2>3, MoveTyped DEF Steps, WritingSteps
  <1> QED
    BY <1>1, <1>3, <1>6, <1>7 DEF Spend

LEMMA SessionTyped ==
    ASSUME TypeInv, NEW r \in Requests, RefreshCheck(r) \/ RefreshRead(r) \/ SignOut(r)
    PROVE  TypeInv'
  <1>1. call[r].pair \in Pairs /\ call[r].op \in {"Refresh", "Logout"}
    BY DEF RefreshCheck, RefreshRead, SignOut, TypeInv, StepsTyped, At, Sound
  <1>2. PICK p \in Pairs : p = call[r].pair
    BY <1>1
  <1>3. p.sid \in Ids /\ p.user \in Users /\ p.at \in Nat /\ users[p.user] \in UserRows
    BY DEF Pairs, TypeInv, TablesTyped
  <1>4. CASE RefreshCheck(r)
    <2>1. PICK t \in {"refreshRead", "done"} : Goto(r, t)
      BY <1>4 DEF RefreshCheck, Stop
    <2>2. UNCHANGED <<tables, clients, memory, history, pending, started, now, call, failures>>
      BY <1>4 DEF RefreshCheck, Quiet
    <2>3. At(t, call[r], who[r])
      BY <1>4, <2>1 DEF RefreshCheck, At, TypeInv, StepsTyped
    <2>4. TablesTyped' /\ ClientsTyped' /\ CountsTyped' /\ HistoryTyped' /\ MemoryTyped'
      BY <2>2, TypedFrames DEF TypeInv
    <2> QED
      BY <2>1, <2>2, <2>3, <2>4, MoveTyped DEF Steps, memory
  <1>5. CASE RefreshRead(r)
    <2>1. /\ UNCHANGED <<tables, challenges, memory, history, pending, started, now, call, failures>>
          /\ Goto(r, "done")
      BY <1>5 DEF RefreshRead, Quiet, Stop
    <2>2. [sid |-> p.sid, user |-> p.user, role |-> users[p.user].role, at |-> now] \in Pairs
      BY <1>3 DEF Pairs, UserRows, TypeInv, CountsTyped
    <2>3. ClientsTyped'
      BY <1>2, <1>5, <2>1, <2>2 DEF RefreshRead, TypeInv, ClientsTyped
    <2>4. TablesTyped' /\ CountsTyped' /\ HistoryTyped' /\ MemoryTyped'
      BY <2>1, TypedFrames DEF TypeInv
    <2> QED
      BY <2>1, <2>3, <2>4, DoneAt, MoveTyped DEF Steps, memory
  <1>6. CASE SignOut(r)
    <2>1. /\ UNCHANGED <<users, deniedAll, tokens, provider, clients, memory, unended, accepted>>
          /\ UNCHANGED <<pending, started, now, call, failures>> /\ Goto(r, "done")
      BY <1>6 DEF SignOut, Quiet, Stop
    <2>2. SignOutUntil(p) \in Nat
      BY <1>3, AccessTimesAssumption DEF SignOutUntil
    <2>3. TablesTyped'
      BY <1>2, <1>3, <1>6, <2>1, <2>2 DEF SignOut, TypeInv, TablesTyped
    <2>4. HistoryTyped'
      BY <1>2, <1>3, <1>6, <2>1 DEF SignOut, TypeInv, HistoryTyped
    <2>5. ClientsTyped' /\ CountsTyped' /\ MemoryTyped'
      BY <2>1, TypedFrames DEF TypeInv
    <2> QED
      BY <2>1, <2>3, <2>4, <2>5, DoneAt, MoveTyped DEF Steps, memory
  <1> QED
    BY <1>4, <1>5, <1>6

LEMMA FederatedTyped ==
    ASSUME TypeInv, NEW r \in Requests, NEW u \in Users, NEW row \in UserRows, Federated(r, u, row)
    PROVE  ClientsTyped'
  BY IssueTyped DEF Federated

LEMMA ProviderTyped ==
    ASSUME TypeInv, NEW r \in Requests, Authorize(r) \/ Redeem(r)
    PROVE  TypeInv'
  <1>1. CASE Authorize(r)
    <2>1. Goto(r, "done") /\ UNCHANGED <<tables, clients, now, call, memory, history, failures>>
      BY <1>1 DEF Authorize, Stop
    <2>2. CountsTyped'
      BY <1>1, AccessTimesAssumption DEF Authorize, TypeInv, CountsTyped
    <2>3. TablesTyped' /\ ClientsTyped' /\ HistoryTyped' /\ MemoryTyped'
      BY <2>1, TypedFrames DEF TypeInv
    <2> QED
      BY <2>1, <2>2, <2>3, DoneAt, MoveTyped DEF Steps, memory
  <1>2. CASE Redeem(r)
    <2>1. UNCHANGED <<tables, clients, started, now, call, who, seen, history, failures>>
      BY <1>2 DEF Redeem
    <2>2. PICK t \in {"subject", "done"} : Goto(r, t)
      BY <1>2 DEF Redeem, Stop
    <2>3. CountsTyped'
      BY <1>2 DEF Redeem, TypeInv, CountsTyped
    <2>4. MemoryTyped'
      BY <1>2, <2>1 DEF Redeem, TypeInv, MemoryTyped, TablesTyped
    <2>5. TablesTyped' /\ ClientsTyped' /\ HistoryTyped'
      BY <2>1, TypedFrames DEF TypeInv
    <2>6. At(t, call[r], who[r])
      BY <1>2, <2>2 DEF Redeem, At, TypeInv, StepsTyped
    <2> QED
      BY <2>1, <2>2, <2>3, <2>4, <2>5, <2>6, MoveTyped DEF Steps
  <1> QED
    BY <1>1, <1>2

LEMMA SubjectTyped ==
    ASSUME TypeInv, NEW r \in Requests, BySubject(r)
    PROVE  TypeInv'
  <1>1. call[r].op = "OAuthCallback" /\ call[r].profile \in Profiles
    BY DEF BySubject, TypeInv, StepsTyped, At, Sound
  <1>2. UNCHANGED <<tables, pending, started, now, who, idp, history, failures>>
    BY DEF BySubject
  <1>3. TablesTyped' /\ CountsTyped' /\ HistoryTyped'
    BY <1>2, TypedFrames DEF TypeInv
  <1>4. PICK profile \in Profiles : profile = call[r].profile
    BY <1>1
  <1>5. ASSUME NEW u \in Users, call' = [call EXCEPT ![r].user = u],
               \/ Federated(r, u, users[u]) /\ Stop(r) /\ UNCHANGED seen
               \/ /\ seen' = [seen EXCEPT ![r] = [users[u] EXCEPT !.email = profile.email]]
                  /\ Goto(r, "save") /\ UNCHANGED clients
        PROVE  TypeInv'
    <2>1. PICK row \in UserRows : row = users[u]
      BY DEF TypeInv, TablesTyped
    <2>2. /\ call' \in [Requests -> Calls] /\ Sound(call'[r])
          /\ \A q \in Requests \ {r} : call'[q] = call[q]
          /\ \A t, p : At(t, call[r], p) => At(t, call'[r], p)
      BY <1>5, NamedTyped
    <2>3. CASE Federated(r, u, row) /\ Stop(r) /\ UNCHANGED seen
      <3>1. ClientsTyped'
        BY <2>3, FederatedTyped
      <3>2. MemoryTyped'
        BY <1>2, <2>2, <2>3 DEF TypeInv, MemoryTyped
      <3> QED
        BY <1>2, <1>3, <2>2, <2>3, <3>1, <3>2, DoneAt, StepTyped DEF Stop, Steps
    <2>4. CASE /\ seen' = [seen EXCEPT ![r] = [row EXCEPT !.email = profile.email]]
               /\ Goto(r, "save") /\ UNCHANGED clients
      <3>1. ClientsTyped'
        BY <2>4, TypedFrames DEF TypeInv
      <3>2. profile.email \in Users
        BY DEF Profiles
      <3>3. [row EXCEPT !.email = profile.email] \in UserRows
        BY <3>2 DEF UserRows
      <3>4. MemoryTyped'
        BY <1>2, <2>2, <2>4, <3>3 DEF TypeInv, MemoryTyped
      <3>5. At("save", call[r], who[r])
        BY <1>1 DEF At, TwoFactorOps
      <3> QED
        BY <1>2, <1>3, <2>2, <2>4, <3>1, <3>4, <3>5, StepTyped DEF Steps, WritingSteps
    <2> QED
      BY <1>5, <2>1, <2>3, <2>4
  <1>6. CASE /\ Goto(r, "email") \/ Stop(r)
             /\ UNCHANGED <<call, seen, clients>>
    <2>1. PICK t \in {"email", "done"} : Goto(r, t)
      BY <1>6 DEF Stop
    <2>2. ClientsTyped' /\ MemoryTyped'
      BY <1>2, <1>6, TypedFrames DEF TypeInv, memory
    <2>3. At(t, call[r], who[r])
      BY <1>1, <2>1 DEF At
    <2> QED
      BY <1>2, <1>3, <1>6, <2>1, <2>2, <2>3, MoveTyped DEF Steps, WritingSteps
  <1> QED
    BY <1>4, <1>5, <1>6 DEF BySubject

\* A row that is linked to an identity, and the row of whoever signs up.
LEMMA LinkedTyped ==
    ASSUME NEW row \in UserRows, NEW name \in ProviderNames, NEW profile \in Profiles
    PROVE  /\ Linked(row, name, profile) \in UserRows
           /\ \A f \in {"state", "role", "active", "factor"} : Linked(row, name, profile)[f] = row[f]
           /\ Linked(row, name, profile).subject = profile.subject
  <1>1. profile.subject \in Subjects
    BY DEF Profiles
  <1> QED
    BY <1>1 DEF Linked, UserRows

LEMMA SignedUpTyped ==
    ASSUME NEW profile \in Profiles, NEW name \in ProviderNames, NEW role \in Roles
    PROVE  \E row \in UserRows :
              /\ row = Linked([NoRow EXCEPT !.state = "kept", !.email = profile.email,
                                            !.role = role, !.active = TRUE], name, profile)
              /\ row.state = "kept"
  <1>1. profile.email \in Users /\ NoRow \in UserRows
    BY NamesTyped DEF Profiles
  <1>2. PICK new : new = [NoRow EXCEPT !.state = "kept", !.email = profile.email, !.role = role, !.active = TRUE]
    OBVIOUS
  <1>3. new \in UserRows /\ new.state = "kept"
    BY <1>1, <1>2 DEF UserRows
  <1>4. PICK row \in UserRows : row = Linked(new, name, profile)
    BY <1>3, LinkedTyped
  <1>5. row.state = "kept"
    BY <1>3, <1>4, LinkedTyped
  <1> QED
    BY <1>2, <1>4, <1>5

LEMMA EmailTyped ==
    ASSUME TypeInv, NEW r \in Requests, ByEmail(r)
    PROVE  TypeInv'
  <1>1. call[r].op = "OAuthCallback" /\ call[r].profile \in Profiles
    BY DEF ByEmail, TypeInv, StepsTyped, At, Sound
  <1>2. UNCHANGED <<tables, clients, pending, started, now, who, idp, history, failures>>
    BY DEF ByEmail
  <1>3. TablesTyped' /\ ClientsTyped' /\ CountsTyped' /\ HistoryTyped'
    BY <1>2, TypedFrames DEF TypeInv
  <1>4. PICK profile \in Profiles : profile = call[r].profile
    BY <1>1
  <1>5. profile.subject \in Subjects /\ profile.email \in Users
    BY DEF Profiles
  <1>n. PICK name \in ProviderNames, role \in Roles : name = idp[r].name /\ role = idp[r].role
    BY DEF TypeInv, MemoryTyped, ProviderRows
  <1>6. ASSUME NEW u \in Users, call' = [call EXCEPT ![r].user = u], Goto(r, "save"),
               seen' = [seen EXCEPT ![r] = Linked(users[u], name, profile)]
        PROVE  TypeInv'
    <2>1. PICK row \in UserRows : row = users[u]
      BY DEF TypeInv, TablesTyped
    <2>2. /\ call' \in [Requests -> Calls] /\ Sound(call'[r])
          /\ \A q \in Requests \ {r} : call'[q] = call[q]
          /\ \A t, p : At(t, call[r], p) => At(t, call'[r], p)
      BY <1>6, NamedTyped
    <2>3. Linked(row, name, profile) \in UserRows
      BY LinkedTyped
    <2>4. MemoryTyped'
      BY <1>2, <1>6, <2>1, <2>2, <2>3 DEF TypeInv, MemoryTyped
    <2>5. At("save", call[r], who[r])
      BY <1>1 DEF At, TwoFactorOps
    <2> QED
      BY <1>2, <1>3, <1>6, <2>2, <2>4, <2>5, StepTyped DEF Steps, WritingSteps
  <1>7. CASE Stop(r) /\ UNCHANGED <<call, seen>>
    <2>1. MemoryTyped'
      BY <1>2, <1>7, TypedFrames DEF TypeInv, memory
    <2> QED
      BY <1>2, <1>3, <1>7, <2>1, DoneAt, MoveTyped DEF Stop, Steps
  <1>8. CASE /\ Goto(r, "insert") /\ UNCHANGED call
             /\ seen' = [seen EXCEPT ![r] =
                  Linked([NoRow EXCEPT !.state = "kept", !.email = profile.email,
                                       !.role = role, !.active = TRUE], name, profile)]
    <2>1. PICK row \in UserRows :
             /\ row = Linked([NoRow EXCEPT !.state = "kept", !.email = profile.email,
                                           !.role = role, !.active = TRUE], name, profile)
             /\ row.state = "kept"
      BY SignedUpTyped
    <2>2. seen' = [seen EXCEPT ![r] = row]
      BY <1>8, <2>1
    <2>3. MemoryTyped'
      BY <1>2, <1>8, <2>2 DEF TypeInv, MemoryTyped
    <2>4. At("insert", call[r], who[r])
      BY <1>1 DEF At
    <2> QED
      BY <1>2, <1>3, <1>8, <2>3, <2>4, MoveTyped DEF Steps, WritingSteps
  <1> QED
    BY <1>4, <1>6, <1>7, <1>8, <1>n DEF ByEmail

LEMMA RecoveryTyped ==
    ASSUME NEW r \in Requests
    PROVE  Recovery(r) \subseteq Codes
  <1> SUFFICES ASSUME NEW code \in Recovery(r) PROVE code \in Codes
    OBVIOUS
  <1>1. PICK i \in 1 .. RecoveryCodes : code = [totp |-> FALSE, of |-> r, n |-> i]
    BY DEF Recovery
  <1>2. i \in Int /\ r \in Ids
    BY AccessTimesAssumption DEF Ids
  <1> QED
    BY <1>1, <1>2 DEF Codes

LEMMA ClearedTyped ==
    ASSUME NEW row \in UserRows
    PROVE  /\ Cleared(row) \in UserRows
           /\ \A f \in {"state", "role", "active", "subject"} : Cleared(row)[f] = row[f]
  <1>1. \A f \in {"state", "role", "active", "subject"} : Cleared(row)[f] = row[f]
    BY DEF Cleared, UserRows
  <1>2. Cleared(row) \in UserRows
    <2>1. ASSUME NEW f \in {"off", "pending", "on"}, NEW secret \in Ids \cup {None}, NEW i \in Int,
                 NEW codes \in SUBSET Codes
          PROVE  [row EXCEPT !.factor = f, !.secret = secret, !.step = i, !.codes = codes] \in UserRows
      BY DEF UserRows
    <2>2. PICK f \in {"off", "pending", "on"} : f = "off"
      OBVIOUS
    <2>4. PICK secret \in Ids \cup {None} : secret = None
      OBVIOUS
    <2>5. PICK i \in Int : i = 0
      OBVIOUS
    <2>6. PICK codes \in SUBSET Codes : codes = {}
      OBVIOUS
    <2>3. [row EXCEPT !.factor = f, !.secret = secret, !.step = i, !.codes = codes] \in UserRows
      BY <2>1
    <2> QED
      BY <2>2, <2>3, <2>4, <2>5, <2>6 DEF Cleared
  <1> QED
    BY <1>1, <1>2

\* What a handler writes, made of what it has read.
LEMMA WrittenTyped ==
    ASSUME TypeInv, NEW r \in Requests, pc[r] = "save"
    PROVE  /\ Written(r) \in UserRows
           /\ \A f \in {"state", "subject"} : Written(r)[f] = seen[r][f]
           /\ call[r].op # "UpdateUser" => \A f \in {"role", "active"} : Written(r)[f] = seen[r][f]
           /\ call[r].op = "UpdateUser" =>
                 /\ Written(r).role = IF call[r].edit.role = None THEN seen[r].role ELSE call[r].edit.role
                 /\ Written(r).active = IF call[r].edit.active = None THEN seen[r].active ELSE call[r].edit.active
           /\ call[r].op = "OAuthCallback" => Written(r) = seen[r]
  <1>1. PICK row \in UserRows, c \in Calls : row = seen[r] /\ c = call[r]
    BY DEF TypeInv, MemoryTyped
  <1>2. Sound(c) /\ At("save", c, who[r])
    BY <1>1 DEF TypeInv, StepsTyped
  <1>3. Recovery(r) \subseteq Codes
    BY RecoveryTyped
  <1>4. CASE c.op = "UpdateUser"
    <2>1. PICK edit \in Edits : edit = c.edit
      BY <1>2, <1>4 DEF Sound, UserOps
    <2>2. /\ edit.role \in Roles \cup {None}
          /\ edit.active \in BOOLEAN \cup {None} /\ edit.password \in BOOLEAN
      BY <1>2, <1>4, <2>1, AccessRowsAssumption DEF At
    <2>3. Written(r) = Edited(row, edit)
      BY <1>1, <1>4, <2>1 DEF Written
    <2>4. (IF edit.role = None THEN row.role ELSE edit.role) \in Roles
      BY <2>2 DEF UserRows
    <2>5. (IF edit.active = None THEN row.active ELSE edit.active) \in BOOLEAN
      BY <2>2 DEF UserRows
    <2>6. (row.password \/ edit.password) \in BOOLEAN
      BY <2>2 DEF UserRows
    <2>7. Edited(row, edit) \in UserRows
      <3>1. ASSUME NEW role \in Roles, NEW active \in BOOLEAN, NEW password \in BOOLEAN
            PROVE  [row EXCEPT !.role = role, !.active = active, !.password = password] \in UserRows
        BY DEF UserRows
      <3>2. PICK role \in Roles : role = IF edit.role = None THEN row.role ELSE edit.role
        BY <2>4
      <3>3. PICK active \in BOOLEAN : active = IF edit.active = None THEN row.active ELSE edit.active
        BY <2>5
      <3>4. PICK password \in BOOLEAN : password = (row.password \/ edit.password)
        BY <2>6
      <3>5. [row EXCEPT !.role = role, !.active = active, !.password = password] \in UserRows
        BY <3>1
      <3> QED
        BY <3>2, <3>3, <3>4, <3>5, Zenon DEF Edited
    <2>8. /\ \A f \in {"state", "subject"} : Edited(row, edit)[f] = row[f]
          /\ Edited(row, edit).role = IF edit.role = None THEN row.role ELSE edit.role
          /\ Edited(row, edit).active = IF edit.active = None THEN row.active ELSE edit.active
      BY DEF Edited, UserRows
    <2> QED
      BY <1>1, <1>4, <2>1, <2>3, <2>7, <2>8
  <1>5. CASE c.op \in {"DisableTwoFactor", "ResetUserTwoFactor"}
    <2>1. Written(r) = Cleared(row)
      BY <1>1, <1>5 DEF Written
    <2> QED
      BY <1>1, <1>5, <2>1, ClearedTyped
  <1>6. CASE c.op = "SetupTwoFactor"
    <2>1. Written(r) = [Cleared(row) EXCEPT !.factor = "pending", !.secret = r]
      BY <1>1, <1>6 DEF Written
    <2> QED
      <3>1. r \in Ids \cup {None} /\ Cleared(row) \in UserRows
        BY ClearedTyped DEF Ids
      <3>2. [Cleared(row) EXCEPT !.factor = "pending", !.secret = r] \in UserRows
        BY <3>1 DEF UserRows
      <3>3. \A f \in {"state", "role", "active", "subject"} : Written(r)[f] = Cleared(row)[f]
        BY <2>1, <3>1 DEF UserRows
      <3> QED
        BY <1>1, <1>6, <2>1, <3>2, <3>3, ClearedTyped
  <1>7. CASE c.op = "EnableTwoFactor"
    <2>1. Written(r) = [row EXCEPT !.factor = "on", !.step = c.code.n, !.codes = Recovery(r)]
      BY <1>1, <1>7 DEF Written
    <2>2. c.code.n \in Int
      BY <1>2, <1>7 DEF At, Codes
    <2>3. PICK n \in Int, codes \in SUBSET Codes : n = c.code.n /\ codes = Recovery(r)
      BY <1>3, <2>2
    <2>4. Written(r) = [row EXCEPT !.factor = "on", !.step = n, !.codes = codes]
      BY <2>1, <2>3
    <2>5. Written(r) \in UserRows
      BY <1>1, <2>3, <2>4 DEF UserRows
    <2>6. \A f \in {"state", "role", "active", "subject"} : Written(r)[f] = row[f]
      BY <1>1, <2>4 DEF UserRows
    <2> QED
      BY <1>1, <1>7, <2>3, <2>5, <2>6
  <1>8. CASE c.op = "RegenerateRecoveryCodes"
    <2>1. Written(r) = [row EXCEPT !.codes = Recovery(r)]
      BY <1>1, <1>8 DEF Written
    <2> QED
      BY <1>1, <1>3, <1>8, <2>1 DEF UserRows
  <1>9. CASE c.op = "OAuthCallback"
    <2>1. Written(r) = row
      BY <1>1, <1>9 DEF Written
    <2> QED
      BY <1>1, <1>9, <2>1
  <1> QED
    BY <1>1, <1>2, <1>4, <1>5, <1>6, <1>7, <1>8, <1>9 DEF At, TwoFactorOps

\* A handler reads the row of its account, and may strike off a code in it.
LEMMA ReadTyped ==
    ASSUME TypeInv, NEW r \in Requests, Read(r) \/ Count(r)
    PROVE  TypeInv'
  <1>0. PICK c \in Calls : c = call[r]
    BY DEF TypeInv, MemoryTyped
  <1>1. UNCHANGED <<tables, clients, who, idp, history, pending, started, now, call, failures>>
    BY DEF Read, Count, Quiet, memory
  <1>2. TablesTyped' /\ ClientsTyped' /\ CountsTyped' /\ HistoryTyped'
    BY <1>1, TypedFrames DEF TypeInv
  <1>3. Sound(c) /\ At(pc[r], c, who[r])
    BY <1>0 DEF TypeInv, StepsTyped
  <1>4. CASE Stop(r) /\ UNCHANGED seen
    <2>1. MemoryTyped'
      BY <1>1, <1>4, TypedFrames DEF TypeInv, memory
    <2> QED
      BY <1>1, <1>2, <1>4, <2>1, DoneAt, MoveTyped DEF Stop, Steps
  <1>5. CASE Count(r) /\ ~Stop(r)
    <2>1. PICK t \in {"delete", "save"} : Goto(r, t) /\ (t = "delete" <=> c.op = "DeleteUser")
      BY <1>0, <1>5 DEF Count
    <2>2. MemoryTyped' /\ UNCHANGED who
      BY <1>1, <1>5, TypedFrames DEF TypeInv, Count, memory
    <2>3. At(t, c, who[r])
      BY <1>3, <1>5, <2>1 DEF Count, At, TwoFactorOps
    <2> QED
      BY <1>0, <1>1, <1>2, <2>1, <2>2, <2>3, MoveTyped DEF Steps, WritingSteps
  <1>6. CASE Read(r) /\ ~(Stop(r) /\ UNCHANGED seen)
    <2>1. PICK u \in Users : u = Target(r)
      BY <1>6, TargetTyped DEF Read
    <2>2. PICK row \in UserRows : row = users[u]
      BY DEF TypeInv, TablesTyped
    <2>3. /\ Proceeds(r, row) /\ Goto(r, AfterRead(r, row))
          /\ seen' = [seen EXCEPT ![r] = IF ProvesFactor(r, row) THEN Spent(row, c.code) ELSE row]
      BY <1>0, <1>6, <2>1, <2>2 DEF Read
    <2>4. ProvesFactor(r, row) => c.code \in Codes
      <3>1. ASSUME ProvesFactor(r, row) PROVE Accepts(row, c.code)
        BY <1>0, <2>3, <3>1 DEF ProvesFactor, Proceeds
      <3> QED
        BY <3>1 DEF Accepts, Calls
    <2>5. MemoryTyped'
      BY <1>1, <2>3, <2>4, SpentTyped DEF TypeInv, MemoryTyped
    <2>6. c.op \in TwoFactorOps \cup {"UpdateUser", "DeleteUser", "ResetUserTwoFactor", "CreateToken"}
      BY <1>3, <1>6 DEF Read, At
    <2>7. c.op \in TwoFactorOps => who[r].user \in Users
      BY <1>3, <1>6 DEF Read, At
    <2>8. AfterRead(r, row) \in Steps /\ At(AfterRead(r, row), c, who[r])
      <3>1. CASE c.op = "CreateToken"
        <4>1. AfterRead(r, row) = "insert"
          BY <1>0, <3>1 DEF AfterRead, ProvesFactor
        <4> QED
          BY <3>1, <4>1 DEF At, Steps, WritingSteps
      <3>2. CASE c.op = "DeleteUser"
        <4>1. AfterRead(r, row) \in {"count", "delete"}
          BY <1>0, <3>2 DEF AfterRead, ProvesFactor
        <4> QED
          BY <3>2, <4>1 DEF At, Steps, WritingSteps, TwoFactorOps
      <3>3. CASE c.op = "UpdateUser"
        <4>1. AfterRead(r, row) \in {"count", "save"}
          BY <1>0, <3>3 DEF AfterRead, ProvesFactor
        <4>2. c.edit.role \in Roles \cup {None}
          BY <1>0, <2>3, <3>3 DEF Proceeds, ValidRole
        <4> QED
          BY <3>3, <4>1, <4>2 DEF At, Steps, WritingSteps, TwoFactorOps
      <3>4. CASE c.op \in TwoFactorOps \cup {"ResetUserTwoFactor"}
        <4>1. AfterRead(r, row) = IF ProvesFactor(r, row) THEN "spend" ELSE "save"
          BY <1>0, <3>4 DEF AfterRead, TwoFactorOps
        <4>2. ProvesFactor(r, row) => c.op \in {"DisableTwoFactor", "RegenerateRecoveryCodes"}
          BY <1>0 DEF ProvesFactor
        <4>3. c.op = "EnableTwoFactor" => c.code \in Codes
          BY <1>0, <2>3 DEF Proceeds, Calls
        <4> QED
          BY <2>4, <2>7, <3>4, <4>1, <4>2, <4>3 DEF At, Steps, WritingSteps, TwoFactorOps
      <3> QED
        BY <2>6, <3>1, <3>2, <3>3, <3>4
    <2> QED
      BY <1>0, <1>1, <1>2, <2>3, <2>5, <2>8, MoveTyped
  <1> QED
    BY <1>4, <1>5, <1>6 DEF Count, memory

LEMMA SaveTyped ==
    ASSUME TypeInv, NEW r \in Requests, Save(r)
    PROVE  TypeInv'
  <1>1. PICK u \in Users : u = Target(r)
    BY TargetTyped DEF Save
  <1>2. PICK row \in UserRows, old \in UserRows : row = Written(r) /\ old = seen[r]
    BY WrittenTyped DEF Save, TypeInv, MemoryTyped
  <1>3. /\ UNCHANGED <<denied, deniedAll, tokens, provider, memory, history>>
        /\ UNCHANGED <<pending, started, now, call, failures>>
        /\ At(pc[r], call[r], who[r])
    BY DEF Save, Quiet, TypeInv, StepsTyped
  <1>4. CountsTyped' /\ HistoryTyped' /\ MemoryTyped'
    BY <1>3, TypedFrames DEF TypeInv
  <1>5. CASE Stop(r) /\ UNCHANGED <<users, clients>>
    <2>1. TablesTyped' /\ ClientsTyped'
      BY <1>3, <1>5, TypedFrames DEF TypeInv, tables
    <2> QED
      BY <1>3, <1>4, <1>5, <2>1, DoneAt, MoveTyped DEF Stop, Steps, memory
  <1>6. CASE /\ users' = [users EXCEPT ![u] = row]
             /\ Federated(r, u, old) \/ UNCHANGED clients
             /\ Goto(r, IF call[r].op = "UpdateUser" /\ EndsSessions(call[r].edit) THEN "end" ELSE "done")
    <2>1. TablesTyped'
      BY <1>3, <1>6 DEF TypeInv, TablesTyped
    <2>2. ClientsTyped'
      BY <1>6, FederatedTyped, TypedFrames DEF TypeInv
    <2>3. PICK t \in {"end", "done"} : Goto(r, t) /\ (t = "end" => call[r].op = "UpdateUser")
      BY <1>6
    <2>4. At(t, call[r], who[r])
      BY <2>3 DEF At
    <2> QED
      BY <1>3, <1>4, <2>1, <2>2, <2>3, <2>4, MoveTyped DEF Steps, memory
  <1> QED
    BY <1>1, <1>2, <1>5, <1>6 DEF Save, SaveUser

LEMMA EndTyped ==
    ASSUME TypeInv, NEW r \in Requests, EndSessions(r) \/ DeleteRow(r)
    PROVE  TypeInv'
  <1>1. PICK u \in Users : u = Target(r)
    BY TargetTyped DEF EndSessions, DeleteRow
  <1>2. /\ Goto(r, "done") /\ UNCHANGED <<denied, provider, clients, memory, accepted>>
        /\ UNCHANGED <<pending, started, now, call, failures>>
    BY DEF EndSessions, DeleteRow, Quiet, Stop, history
  <1>3. ClientsTyped' /\ CountsTyped' /\ MemoryTyped'
    BY <1>2, TypedFrames DEF TypeInv
  <1>4. CASE EndSessions(r)
    <2>1. AllUntil \in Nat
      BY AccessTimesAssumption DEF AllUntil, TypeInv, CountsTyped
    <2>2. TablesTyped'
      BY <1>1, <1>2, <1>4, <2>1 DEF EndSessions, TypeInv, TablesTyped
    <2>3. {p.sid : p \in {p \in pairs : p.user = u}} \subseteq Ids
      BY DEF TypeInv, ClientsTyped, Pairs
    <2>4. HistoryTyped'
      BY <1>1, <1>2, <1>4, <2>3 DEF EndSessions, TypeInv, HistoryTyped
    <2> QED
      BY <1>2, <1>3, <2>2, <2>4, DoneAt, MoveTyped DEF Steps, memory
  <1>5. CASE DeleteRow(r)
    <2>1. UNCHANGED <<denied, deniedAll, provider, history>>
      BY <1>5 DEF DeleteRow
    <2>2. /\ users' \in [Users -> UserRows] /\ tokens' \in [Ids -> TokenRows]
          /\ \A k \in Ids : tokens'[k] = NoToken \/ tokens'[k] = tokens[k]
      <3>1. CASE UNCHANGED <<users, tokens>>
        BY <3>1 DEF TypeInv, TablesTyped
      <3>2. CASE /\ users' = [users EXCEPT ![u].state = "deleted"]
                 /\ tokens' = [k \in Ids |-> IF tokens[k].user = u THEN NoToken ELSE tokens[k]]
        <4>1. [users[u] EXCEPT !.state = "deleted"] \in UserRows
          BY DEF TypeInv, TablesTyped, UserRows
        <4>2. users' \in [Users -> UserRows]
          BY <3>2, <4>1 DEF TypeInv, TablesTyped
        <4> QED
          BY <3>2, <4>2, NamesTyped DEF TypeInv, TablesTyped
      <3> QED
        BY <1>1, <1>5, <3>1, <3>2 DEF DeleteRow
    <2>3. TablesTyped'
      BY <2>1, <2>2 DEF TypeInv, TablesTyped, NoToken
    <2>4. HistoryTyped'
      BY <2>1, TypedFrames DEF TypeInv
    <2> QED
      BY <1>2, <1>3, <2>3, <2>4, DoneAt, MoveTyped DEF Steps, memory
  <1> QED
    BY <1>4, <1>5

\* The row of an account that an administrator adds.
LEMMA AddedTyped ==
    ASSUME TypeInv, NEW r \in Requests, pc[r] = "insert", call[r].op = "CreateUser"
    PROVE  \E row \in UserRows :
              /\ row = [NoRow EXCEPT !.state = "kept", !.email = call[r].user, !.role = call[r].role,
                                     !.active = TRUE, !.password = TRUE]
              /\ row.state = "kept"
  <1>1. PICK u \in Users, role \in Roles : u = call[r].user /\ role = call[r].role
    BY DEF TypeInv, StepsTyped, Sound, UserOps
  <1>2. NoRow \in UserRows
    BY NamesTyped
  <1>3. [NoRow EXCEPT !.state = "kept", !.email = u, !.role = role, !.active = TRUE, !.password = TRUE] \in UserRows
    BY <1>2 DEF UserRows
  <1>4. PICK row \in UserRows :
           row = [NoRow EXCEPT !.state = "kept", !.email = u, !.role = role, !.active = TRUE, !.password = TRUE]
    BY <1>3
  <1>5. row.state = "kept"
    BY <1>2, <1>4 DEF UserRows
  <1> QED
    BY <1>1, <1>4, <1>5

LEMMA InsertTyped ==
    ASSUME TypeInv, NEW r \in Requests, Insert(r)
    PROVE  TypeInv'
  <1>1. /\ Goto(r, "done") /\ UNCHANGED <<denied, deniedAll, provider, memory, history>>
        /\ UNCHANGED <<pending, started, now, call, failures>>
    BY DEF Insert, Quiet, Stop
  <1>2. CountsTyped' /\ MemoryTyped' /\ HistoryTyped'
    BY <1>1, TypedFrames DEF TypeInv
  <1>3. call[r].op \in {"CreateUser", "CreateToken", "OAuthCallback"}
    BY DEF Insert, TypeInv, StepsTyped, At
  <1>4. ASSUME TablesTyped', ClientsTyped' PROVE TypeInv'
    BY <1>1, <1>2, <1>4, DoneAt, MoveTyped DEF Steps, memory
  <1>5. CASE call[r].op = "CreateToken"
    <2>1. InsertToken(r) /\ UNCHANGED <<users, clients>>
      BY <1>5 DEF Insert
    <2>2. PICK u \in Users, scopes \in SUBSET Scopes : u = call[r].user /\ scopes = call[r].scopes
      BY <1>5 DEF TypeInv, StepsTyped, Sound, MemoryTyped, Calls
    <2>3. [kept |-> TRUE, user |-> u, scopes |-> scopes, revoked |-> FALSE] \in TokenRows
      BY DEF TokenRows
    <2>4. tokens' = [tokens EXCEPT ![r] = [kept |-> TRUE, user |-> u, scopes |-> scopes, revoked |-> FALSE]]
      BY <2>1, <2>2 DEF InsertToken
    <2>5. TablesTyped'
      BY <1>1, <2>1, <2>3, <2>4 DEF TypeInv, TablesTyped
    <2> QED
      BY <1>4, <2>1, <2>5, TypedFrames DEF TypeInv
  <1>6. ASSUME NEW row \in UserRows, InsertUser(r, row), UNCHANGED tokens PROVE TypeInv'
    <2>1. CASE UNCHANGED <<users, clients>>
      BY <1>1, <1>4, <1>6, <2>1, TypedFrames DEF TypeInv, tables
    <2>2. CASE \E u \in Users : /\ SaveUser(u, row)
                                /\ Federated(r, u, row) \/ UNCHANGED clients
      <3>1. PICK u \in Users : SaveUser(u, row) /\ (Federated(r, u, row) \/ UNCHANGED clients)
        BY <2>2
      <3>2. ClientsTyped'
        BY <3>1, FederatedTyped, TypedFrames DEF TypeInv
      <3>3. TablesTyped'
        BY <1>1, <1>6, <3>1 DEF SaveUser, TypeInv, TablesTyped
      <3> QED
        BY <1>4, <3>2, <3>3
    <2> QED
      BY <1>6, <2>1, <2>2 DEF InsertUser
  <1>7. CASE call[r].op = "CreateUser"
    <2>1. pc[r] = "insert"
      BY DEF Insert
    <2>2. PICK row \in UserRows : row = [NoRow EXCEPT !.state = "kept", !.email = call[r].user,
                                            !.role = call[r].role, !.active = TRUE, !.password = TRUE]
      BY <1>7, <2>1, AddedTyped
    <2>3. InsertUser(r, row) /\ UNCHANGED tokens
      BY <1>7, <2>2 DEF Insert
    <2> QED
      BY <1>6, <2>3
  <1>8. CASE call[r].op = "OAuthCallback"
    <2>1. PICK row \in UserRows : row = seen[r]
      BY DEF TypeInv, MemoryTyped
    <2>2. InsertUser(r, row) /\ UNCHANGED tokens
      BY <1>8, <2>1 DEF Insert
    <2> QED
      BY <1>6, <2>2
  <1> QED
    BY <1>3, <1>5, <1>7, <1>8

LEMMA TokenStepTyped ==
    ASSUME TypeInv, NEW r \in Requests, TokenGet(r) \/ TokenRevoke(r) \/ ProviderSave(r)
    PROVE  TypeInv'
  <1>1. /\ UNCHANGED <<users, denied, deniedAll, clients, memory, history>>
        /\ UNCHANGED <<pending, started, now, call, failures>>
    BY DEF TokenGet, TokenRevoke, ProviderSave, Quiet, tables
  <1>2. ClientsTyped' /\ CountsTyped' /\ MemoryTyped' /\ HistoryTyped'
    BY <1>1, TypedFrames DEF TypeInv
  <1>3. CASE TokenGet(r)
    <2>1. PICK t \in {"tokenRevoke", "done"} : Goto(r, t)
      BY <1>3 DEF TokenGet, Stop
    <2>2. TablesTyped'
      BY <1>3, TypedFrames DEF TypeInv, TokenGet
    <2>3. At(t, call[r], who[r])
      BY <1>3, <2>1 DEF TokenGet, At, TypeInv, StepsTyped
    <2> QED
      BY <1>1, <1>2, <2>1, <2>2, <2>3, MoveTyped DEF Steps, memory
  <1>4. CASE TokenRevoke(r)
    <2>1. PICK k \in Ids : k = call[r].user
      BY <1>4 DEF TokenRevoke, TypeInv, StepsTyped, At, Sound
    <2>2. tokens[k] \in TokenRows
      BY DEF TypeInv, TablesTyped
    <2>3. [tokens[k] EXCEPT !.revoked = tokens[k].revoked \/ tokens[k].kept] \in TokenRows
      BY <2>2 DEF TokenRows
    <2>4. /\ Goto(r, "done") /\ UNCHANGED provider
          /\ tokens' = [tokens EXCEPT ![k].revoked = @ \/ tokens[k].kept]
      BY <1>4, <2>1 DEF TokenRevoke, Stop
    <2>5. tokens' = [tokens EXCEPT ![k] = [tokens[k] EXCEPT !.revoked = tokens[k].revoked \/ tokens[k].kept]]
      BY <2>2, <2>4 DEF TypeInv, TablesTyped
    <2>6. [tokens[k] EXCEPT !.revoked = tokens[k].revoked \/ tokens[k].kept].kept = tokens[k].kept
          /\ [tokens[k] EXCEPT !.revoked = tokens[k].revoked \/ tokens[k].kept].user = tokens[k].user
      BY <2>2 DEF TokenRows
    <2>7. TablesTyped'
      BY <1>1, <2>3, <2>4, <2>5, <2>6 DEF TypeInv, TablesTyped
    <2> QED
      BY <1>1, <1>2, <2>4, <2>7, DoneAt, MoveTyped DEF Steps, memory
  <1>5. CASE ProviderSave(r)
    <2>1. Goto(r, "done") /\ UNCHANGED tokens
      BY <1>5 DEF ProviderSave, Stop
    <2>2. call[r].op = "SaveOAuthProvider" => call[r].provider \in ProviderRows
      BY AccessRowsAssumption DEF TypeInv, StepsTyped, Sound
    <2>3. [provider EXCEPT !.kept = FALSE] \in ProviderRows
      BY DEF TypeInv, TablesTyped, ProviderRows
    <2>4. TablesTyped'
      BY <1>1, <1>5, <2>1, <2>2, <2>3 DEF ProviderSave, TypeInv, TablesTyped
    <2> QED
      BY <1>1, <1>2, <2>1, <2>4, DoneAt, MoveTyped DEF Steps, memory
  <1> QED
    BY <1>3, <1>4, <1>5

\* The accounts whose sessions are not ended.
LEMMA CutTyped ==
    ASSUME TypeInv, NEW rs \in SUBSET Requests
    PROVE  Cut(rs) \subseteq Users
  BY TargetTyped DEF Cut

LEMMA FailTyped ==
    ASSUME TypeInv, NEW r \in Requests, Fail(r)
    PROVE  TypeInv'
  <1>1. UNCHANGED <<tables, clients, pending, started, now, call, memory, ended, accepted>> /\ Goto(r, "done")
    BY DEF Fail, Stop
  <1>2. TablesTyped' /\ ClientsTyped' /\ MemoryTyped'
    BY <1>1, TypedFrames DEF TypeInv
  <1>3. CountsTyped'
    BY <1>1 DEF Fail, TypeInv, CountsTyped
  <1>4. {r} \in SUBSET Requests
    OBVIOUS
  <1>5. HistoryTyped'
    BY <1>1, <1>4, CutTyped DEF Fail, TypeInv, HistoryTyped
  <1> QED
    BY <1>1, <1>2, <1>3, <1>5, DoneAt, MoveTyped DEF Steps, memory

LEMMA ServiceTyped ==
    ASSUME TypeInv, Tick \/ Prune \/ Crash
    PROVE  TypeInv'
  <1>1. CASE Tick
    <2>1. TablesTyped' /\ MemoryTyped' /\ HistoryTyped'
      BY <1>1, TypedFrames DEF Tick, TypeInv
    <2>2. CountsTyped' /\ ClientsTyped'
      BY <1>1 DEF Tick, TypeInv, CountsTyped, ClientsTyped
    <2>3. StepsTyped'
      BY <1>1 DEF Tick, TypeInv, StepsTyped, memory
    <2> QED
      BY <2>1, <2>2, <2>3 DEF TypeInv
  <1>2. CASE Prune
    <2>1. ClientsTyped' /\ MemoryTyped' /\ HistoryTyped' /\ CountsTyped'
      BY <1>2, TypedFrames DEF Prune, TypeInv, Quiet
    <2>2. TablesTyped'
      BY <1>2 DEF Prune, TypeInv, TablesTyped
    <2>3. StepsTyped'
      BY <1>2 DEF Prune, TypeInv, StepsTyped, memory, Quiet
    <2> QED
      BY <2>1, <2>2, <2>3 DEF TypeInv
  <1>3. CASE Crash
    <2>1. TablesTyped' /\ ClientsTyped' /\ MemoryTyped'
      BY <1>3, TypedFrames DEF Crash, TypeInv
    <2>2. CountsTyped'
      BY <1>3 DEF Crash, TypeInv, CountsTyped
    <2>3. HistoryTyped'
      BY <1>3, CutTyped DEF Crash, TypeInv, HistoryTyped
    <2>4. \A r \in Requests : pc'[r] = pc[r] \/ pc'[r] = "done"
      BY <1>3 DEF Crash
    <2>5. pc' \in [Requests -> Steps] /\ UNCHANGED <<call, who, clean>>
      BY <1>3 DEF Crash, Steps, memory
    <2>6. StepsTyped'
      BY <2>4, <2>5, DoneAt DEF TypeInv, StepsTyped
    <2> QED
      BY <2>1, <2>2, <2>3, <2>6 DEF TypeInv
  <1> QED
    BY <1>1, <1>2, <1>3

LEMMA StutterTyped == TypeInv /\ UNCHANGED vars => TypeInv'
  <1> SUFFICES ASSUME TypeInv, UNCHANGED vars PROVE TypeInv'
    OBVIOUS
  <1>1. TablesTyped' /\ ClientsTyped' /\ CountsTyped' /\ MemoryTyped' /\ HistoryTyped'
    BY TypedFrames DEF TypeInv, vars
  <1>2. StepsTyped'
    BY DEF TypeInv, StepsTyped, vars, memory
  <1> QED
    BY <1>1, <1>2 DEF TypeInv

LEMMA NextTyped == TypeInv /\ [Next]_vars => TypeInv'
  <1> SUFFICES ASSUME TypeInv, [Next]_vars PROVE TypeInv'
    OBVIOUS
  <1>1. ASSUME NEW r \in Requests, Serve(r) PROVE TypeInv'
    BY <1>1, BeginTyped, AuthTyped, LoginTyped, VerifyTyped, SpendTyped, SessionTyped, ProviderTyped,
       SubjectTyped, EmailTyped, ReadTyped, SaveTyped, EndTyped, InsertTyped, TokenStepTyped, FailTyped
       DEF Serve
  <1> QED
    BY <1>1, ServiceTyped, StutterTyped DEF Next

\* Accounts, credentials, and what every call carries, are always what the
\* code lets them be (the handlers of service/auth.go, twofactor.go, oauth.go).
THEOREM AccessTypeCorrect == Spec => []TypeOK
  <1>1. Spec => []TypeInv
    BY InitTyped, NextTyped, PTL DEF Spec
  <1> QED
    BY <1>1, TypeInvOK, PTL

-----------------------------------------------------------------------------
(* The guards                                                              *)

GuardInv ==
    \A r \in Requests : who[r] # Nobody =>
        /\ call[r].op \in GuardedOps
        /\ Permits(RouteOf(call[r].op), who[r].role, who[r].scopes)

\* What a call asks stays as it is; an account may be named in it.
SameAsk(r) ==
    /\ call'[r].op = call[r].op /\ call'[r].pair = call[r].pair
    /\ call'[r].code = call[r].code /\ call'[r].edit = call[r].edit

LEMMA EnterAsks ==
    ASSUME TypeInv, NEW r \in Requests, NEW p \in Principals, p.user \in Users, Enter(r, p)
    PROVE  /\ SameAsk(r) /\ \A q \in Requests \ {r} : call'[q] = call[q] /\ who'[q] = who[q]
           /\ \/ UNCHANGED <<who, call>> /\ Goto(r, "done")
              \/ Admitted(r, p) /\ who' = [who EXCEPT ![r] = p] /\ Goto(r, Handler(call[r].op))
           /\ call' = call \/ \E u \in Users : call' = [call EXCEPT ![r].user = u]
  <1>1. CASE Admitted(r, p)
    <2>1. who' = [who EXCEPT ![r] = p] /\ call' = Addressed(r, p) /\ Goto(r, Handler(call[r].op))
      BY <1>1 DEF Enter
    <2>2. call' = call \/ \E u \in Users : call' = [call EXCEPT ![r].user = u]
      BY <2>1 DEF Addressed
    <2>3. SameAsk(r) /\ \A q \in Requests \ {r} : call'[q] = call[q]
      BY <2>2, NamedTyped DEF SameAsk
    <2> QED
      BY <1>1, <2>1, <2>2, <2>3 DEF TypeInv, MemoryTyped
  <1>2. CASE ~Admitted(r, p)
    BY <1>2 DEF Enter, SameAsk, Stop
  <1> QED
    BY <1>1, <1>2

\* Whoever gets past the guards is who the credential says.
LEMMA AuthEnters ==
    ASSUME TypeInv, NEW r \in Requests, Authenticate(r) \/ TokenUser(r)
    PROVE  \/ UNCHANGED <<who, call>> /\ Goto(r, "done")
           \/ \E p \in Principals : p.user \in Users /\ Enter(r, p) /\ call[r].op \in GuardedOps
  <1>1. call[r] \in Calls /\ At(pc[r], call[r], who[r])
    BY DEF TypeInv, MemoryTyped, StepsTyped
  <1>2. CASE Authenticate(r)
    <2>1. call[r].op \in GuardedOps /\ call[r].pair \in Pairs
      BY <1>1, <1>2 DEF Authenticate, At, Calls
    <2>2. PICK p \in Pairs : p = call[r].pair
      BY <2>1
    <2>3. PICK w \in Principals : w = [user |-> p.user, role |-> p.role, scopes |-> {}, token |-> None]
      BY DEF Principals, Pairs
    <2>4. w.user \in Users
      BY <2>3 DEF Pairs
    <2> QED
      BY <1>2, <2>1, <2>2, <2>3, <2>4 DEF Authenticate, Stop
  <1>3. CASE TokenUser(r)
    <2>1. call[r].op \in GuardedOps /\ call[r].token \in Ids
      BY <1>1, <1>3 DEF TokenUser, At, Calls
    <2>2. PICK k \in Ids : k = call[r].token
      BY <2>1
    <2>3. CASE /\ tokens[k].kept
               /\ Enter(r, [user |-> tokens[k].user, role |-> users[tokens[k].user].role,
                            scopes |-> tokens[k].scopes, token |-> k])
      <3>1. tokens[k] \in TokenRows /\ tokens[k].user \in Users
        BY <2>3 DEF TypeInv, TablesTyped
      <3>2. users[tokens[k].user] \in UserRows
        BY <3>1 DEF TypeInv, TablesTyped
      <3>3. PICK w \in Principals : w = [user |-> tokens[k].user, role |-> users[tokens[k].user].role,
                                         scopes |-> tokens[k].scopes, token |-> k]
        BY <3>1, <3>2 DEF Principals, TokenRows, UserRows
      <3>4. w.user \in Users
        BY <3>1, <3>3
      <3> QED
        BY <2>1, <2>3, <3>3, <3>4
    <2> QED
      BY <1>3, <2>2, <2>3 DEF TokenUser, Stop
  <1> QED
    BY <1>2, <1>3

\* A step after the first leaves what was asked, and past the guards also for whom.
LEMMA CallKept ==
    ASSUME TypeInv, NEW r \in Requests, Serve(r), ~Begin(r)
    PROVE  /\ \A q \in Requests : SameAsk(q)
           /\ \A q \in Requests \ {r} : call'[q] = call[q] /\ who'[q] = who[q]
           /\ Authenticate(r) \/ TokenUser(r) \/ UNCHANGED who
           /\ Authenticate(r) \/ TokenUser(r) \/ Login(r) \/ BySubject(r) \/ ByEmail(r) \/ UNCHANGED call
  <1>1. CASE Authenticate(r) \/ TokenUser(r)
    BY <1>1, AuthEnters, EnterAsks DEF SameAsk
  <1>2. CASE Login(r) \/ BySubject(r) \/ ByEmail(r)
    <2>1. UNCHANGED who
      BY <1>2 DEF Login, BySubject, ByEmail
    <2>2. call' = call \/ \E u \in Users : call' = [call EXCEPT ![r].user = u]
      <3>1. CASE Login(r)
        BY <3>1 DEF Login, Stop
      <3>2. CASE BySubject(r)
        BY <3>2 DEF BySubject
      <3>3. CASE ByEmail(r)
        BY <3>3 DEF ByEmail
      <3> QED
        BY <1>2, <3>1, <3>2, <3>3
    <2> QED
      BY <1>2, <2>1, <2>2, NamedTyped DEF SameAsk
  <1>3. CASE UNCHANGED <<call, who>>
    BY <1>3 DEF SameAsk
  <1>4. TokenRead(r) \/ VerifyTwoFactor(r) \/ Spend(r) \/ RefreshCheck(r) \/ RefreshRead(r) \/ SignOut(r)
        \/ Read(r) \/ Count(r) \/ Save(r) \/ EndSessions(r) \/ DeleteRow(r) \/ Insert(r) \/ TokenGet(r)
        \/ TokenRevoke(r) \/ ProviderSave(r) => UNCHANGED <<call, who>>
    BY DEF TokenRead, VerifyTwoFactor, Spend, RefreshCheck, RefreshRead, SignOut, Read, Count, Save, EndSessions,
           DeleteRow, Insert, TokenGet, TokenRevoke, ProviderSave, memory, Quiet
  <1>5. Authorize(r) \/ Redeem(r) \/ Fail(r) => UNCHANGED <<call, who>>
    BY DEF Authorize, Redeem, Fail, memory
  <1> QED
    BY <1>1, <1>2, <1>3, <1>4, <1>5 DEF Serve

LEMMA GuardNext == TypeInv /\ GuardInv /\ [Next]_vars => GuardInv'
  <1> SUFFICES ASSUME TypeInv, GuardInv, [Next]_vars PROVE GuardInv'
    OBVIOUS
  <1>1. ASSUME \A r \in Requests : who'[r] # Nobody => who'[r] = who[r] /\ call'[r].op = call[r].op
        PROVE  GuardInv'
    BY <1>1 DEF GuardInv
  <1>2. ASSUME NEW r \in Requests, Begin(r) PROVE GuardInv'
    <2>1. UNCHANGED who /\ \A q \in Requests \ {r} : call'[q] = call[q]
      BY <1>2 DEF Begin, memory, TypeInv, MemoryTyped
    <2>2. who[r] = Nobody
      BY <1>2 DEF Begin, TypeInv, StepsTyped, At
    <2> QED
      BY <1>1, <2>1, <2>2
  <1>3. ASSUME NEW r \in Requests, Authenticate(r) \/ TokenUser(r) PROVE GuardInv'
    <2>1. CASE UNCHANGED <<who, call>>
      BY <1>1, <2>1
    <2>2. ASSUME NEW p \in Principals, p.user \in Users, Enter(r, p), call[r].op \in GuardedOps
          PROVE  GuardInv'
      <3>1. /\ SameAsk(r) /\ \A q \in Requests \ {r} : call'[q] = call[q] /\ who'[q] = who[q]
            /\ \/ UNCHANGED <<who, call>>
               \/ Admitted(r, p) /\ who' = [who EXCEPT ![r] = p]
        BY <2>2, EnterAsks
      <3>2. CASE Admitted(r, p) /\ who' = [who EXCEPT ![r] = p]
        <4>1. who'[r] = p /\ Permits(RouteOf(call[r].op), p.role, p.scopes)
          BY <3>2 DEF Admitted, TypeInv, MemoryTyped
        <4> QED
          BY <2>2, <3>1, <4>1 DEF GuardInv, SameAsk
      <3> QED
        BY <2>1, <3>1, <3>2
    <2> QED
      BY <1>3, <2>1, <2>2, AuthEnters
  <1>4. ASSUME NEW r \in Requests, Serve(r), ~Begin(r), ~Authenticate(r), ~TokenUser(r) PROVE GuardInv'
    BY <1>1, <1>4, CallKept DEF SameAsk
  <1>5. CASE Tick \/ Prune \/ Crash \/ UNCHANGED vars
    BY <1>1, <1>5 DEF Tick, Prune, Crash, memory, Quiet, vars
  <1> QED
    BY <1>2, <1>3, <1>4, <1>5 DEF Next

\* The tables of the routes: what changes something asks for write scopes, and
\* for more than a viewer unless it is about the account itself.
LEMMA ChangingRoutes ==
    ASSUME NEW route \in Routes, route.changes
    PROVE  /\ route.scope = NoScope \/ route.scope[2] = "write"
           /\ "viewer" \in route.roles => route.op \in TwoFactorOps \cup TokenOps
  <1>1. CASE route \in systemRoutes \cup sessionRoutes
    BY <1>1 DEF systemRoutes, sessionRoutes, Guard, Unguarded, Admins, Writers, NoScope
  <1>2. CASE route \in twoFactorRoutes
    BY <1>2 DEF twoFactorRoutes, Guard, Unguarded, Admins, Writers, NoScope, TwoFactorOps
  <1>3. CASE route \in oauthRoutes
    BY <1>3 DEF oauthRoutes, Guard, Unguarded, Admins, Writers, NoScope
  <1>4. CASE route \in authorityRoutes
    BY <1>4 DEF authorityRoutes, Guard, Unguarded, Admins, Writers, NoScope
  <1>5. CASE route \in certificateRoutes
    BY <1>5 DEF certificateRoutes, Guard, Unguarded, Admins, Writers, NoScope
  <1>6. CASE route \in userRoutes
    BY <1>6 DEF userRoutes, Guard, Unguarded, Admins, Writers, NoScope
  <1>7. CASE route \in tokenRoutes
    BY <1>7 DEF tokenRoutes, Guard, Unguarded, Admins, Writers, NoScope, TokenOps
  <1>8. CASE route \in notificationRoutes \cup deploymentRoutes
    BY <1>8 DEF notificationRoutes, deploymentRoutes, Guard, Unguarded, Admins, Writers, NoScope
  <1>9. CASE route \in externalAccountRoutes \cup operationsRoutes
    BY <1>9 DEF externalAccountRoutes, operationsRoutes, Guard, Unguarded, Admins, Writers, NoScope
  <1> QED
    BY <1>1, <1>2, <1>3, <1>4, <1>5, <1>6, <1>7, <1>8, <1>9 DEF Routes

\* No table lets a reader change anything, and no request gets past a guard it
\* does not satisfy (routes.go, middleware.go: RequireRole, RequireScope).
THEOREM GuardsHold == Spec => []ReadersChangeNothing
  <1>1. Init => GuardInv
    BY DEF Init, GuardInv
  <1>2. GuardInv => ReadersChangeNothing
    <2> SUFFICES ASSUME GuardInv, NEW r \in Requests, who[r] # Nobody, RouteOf(call[r].op).changes
                 PROVE  /\ who[r].scopes \in (SUBSET ReadScopes) \ {{}} => RouteOf(call[r].op).scope = NoScope
                        /\ who[r].role = "viewer" => call[r].op \in TwoFactorOps \cup TokenOps
      BY DEF ReadersChangeNothing
    <2>1. PICK route \in Routes : route = RouteOf(call[r].op) /\ route.op = call[r].op
      BY DEF GuardInv, GuardedOps, RouteOf
    <2>2. who[r].role \in route.roles /\ (route.scope = NoScope \/ HasScope(who[r].scopes, route.scope))
      BY <2>1 DEF GuardInv, Permits
    <2>3. /\ route.scope = NoScope \/ route.scope[2] = "write"
          /\ "viewer" \in route.roles => route.op \in TwoFactorOps \cup TokenOps
      BY <2>1, ChangingRoutes
    <2>4. ASSUME who[r].scopes \in (SUBSET ReadScopes) \ {{}}, HasScope(who[r].scopes, route.scope)
          PROVE  route.scope[2] # "write"
      <3>1. \A s \in who[r].scopes : s[2] = "read"
        BY <2>4 DEF ReadScopes
      <3>2. ScopeAll[2] = "*" /\ <<route.scope[1], "*">>[2] = "*" /\ <<route.scope[1], "write">>[2] = "write"
        BY DEF ScopeAll
      <3>3. who[r].scopes # {}
        BY <2>4
      <3>4. ScopeAll \notin who[r].scopes /\ <<route.scope[1], "*">> \notin who[r].scopes
        BY <3>1, <3>2
      <3> QED
        BY <2>4, <3>1, <3>3, <3>4 DEF HasScope
    <2> QED
      BY <2>1, <2>2, <2>3, <2>4
  <1>3. Spec => []GuardInv
    <2>1. Init => TypeInv /\ GuardInv
      BY <1>1, InitTyped
    <2>2. TypeInv /\ GuardInv /\ [Next]_vars => (TypeInv /\ GuardInv)'
      BY NextTyped, GuardNext
    <2> QED
      BY <2>1, <2>2, PTL DEF Spec
  <1> QED
    BY <1>2, <1>3, PTL

-----------------------------------------------------------------------------
(* Sessions                                                                *)

\* The pairs somebody has: clients, and the requests that came with one.
HeldBy(p) == p \in pairs \/ \E r \in Requests : call[r].pair = p

\* What carries the name of a request was made by it.
Made(s) == s \in Requests => pc[s] = "done"

\* A pair signed then is of no use any more, or denied for as long as it lives.
Outlived(s, u, at) ==
    at + RefreshTTL <= now \/ at + RefreshTTL <= denied[s] \/ at + RefreshTTL <= deniedAll[u]

\* A session belongs to one account, and its request is over.
OwnersInv ==
    /\ \A p \in Pairs : HeldBy(p) => Made(p.sid)
    /\ \A p, q \in Pairs : HeldBy(p) /\ HeldBy(q) /\ p.sid = q.sid => p.user = q.user
    /\ \A s \in ended : Made(s)
    /\ \A p \in pairs : p.at <= now

RefreshInv ==
    \A r \in Requests :
        /\ pc[r] = "refreshCheck" => call[r].pair \in pairs \/ ~LiveRefresh(call[r].pair)
        /\ pc[r] = "refreshRead" => call[r].pair \in pairs

EndedInv ==
    /\ \A s \in Ids : denied[s] # 0 => s \in ended
    /\ \A p \in pairs : p.sid \in ended => Outlived(p.sid, p.user, p.at)
    /\ \A r \in Requests : pc[r] = "refreshRead" /\ call[r].pair.sid \in ended =>
          Outlived(call[r].pair.sid, call[r].pair.user, now)

SessionInv == OwnersInv /\ RefreshInv /\ EndedInv

\* The numbers the arguments are about.
LEMMA TimesTyped ==
    ASSUME TypeInv
    PROVE  /\ now \in Nat /\ AccessTTL \in Nat \ {0} /\ RefreshTTL \in Nat \ {0}
           /\ \A s \in Ids : denied[s] \in Nat
           /\ \A u \in Users : deniedAll[u] \in Nat
           /\ \A p \in Pairs : p.sid \in Ids /\ p.user \in Users /\ p.at \in Nat /\ p.role \in Roles
           /\ pairs \subseteq Pairs
  BY AccessTimesAssumption DEF TypeInv, CountsTyped, TablesTyped, Pairs, ClientsTyped

LEMMA SessionInit == Init => SessionInv
  <1> SUFFICES ASSUME Init PROVE SessionInv
    OBVIOUS
  <1>1. \A r \in Requests : call[r].pair = None /\ pc[r] = "idle"
    BY DEF Init, Blank
  <1>2. \A p \in pairs : p.sid \in Users /\ p.user = p.sid /\ p.at = 0
    BY AccessNamesAssumption DEF Init
  <1>3. \A p \in Pairs : HeldBy(p) => p \in pairs
    BY <1>1, NamesTyped DEF HeldBy
  <1>4. OwnersInv
    BY <1>2, <1>3, NamesTyped DEF OwnersInv, Made, Init
  <1>5. RefreshInv
    BY <1>1 DEF RefreshInv
  <1>6. EndedInv
    BY <1>1 DEF EndedInv, Init
  <1> QED
    BY <1>4, <1>5, <1>6 DEF SessionInv

\* A session that counts is not of those that have ended.
LEMMA SessionInvHolds == TypeInv /\ SessionInv => EndedStaysEnded
  <1> SUFFICES ASSUME TypeInv, SessionInv, NEW p \in pairs, p.sid \in ended, LiveRefresh(p)
               PROVE  IsRevoked(p.sid, p.user)
    BY DEF EndedStaysEnded
  <1>1. Outlived(p.sid, p.user, p.at)
    BY DEF SessionInv, EndedInv
  <1> QED
    BY <1>1, TimesTyped DEF Outlived, LiveRefresh, IsRevoked

\* Steps that neither sign a pair nor end a session.
LEMMA SessionQuiet ==
    ASSUME TypeInv, SessionInv, pairs' = pairs, UNCHANGED <<denied, deniedAll, now, ended>>,
           \A q \in Requests :
              /\ pc[q] = "done" => pc'[q] = "done"
              /\ pc'[q] = pc[q] \/ pc'[q] \notin {"refreshCheck", "refreshRead"}
              /\ call'[q].pair = call[q].pair
    PROVE  SessionInv'
  <1>1. \A p \in Pairs : HeldBy(p)' => HeldBy(p)
    BY DEF HeldBy
  <1>2. \A s : Made(s) => Made(s)'
    BY DEF Made
  <1>3. OwnersInv'
    BY <1>1, <1>2 DEF SessionInv, OwnersInv
  <1>4. RefreshInv'
    BY DEF SessionInv, RefreshInv, LiveRefresh
  <1>5. EndedInv'
    BY DEF SessionInv, EndedInv, Outlived
  <1> QED
    BY <1>3, <1>4, <1>5 DEF SessionInv

\* A pair is signed: the first of the session the request opens, or the next
\* of a session that has not ended for good.
LEMMA SessionSigned ==
    ASSUME TypeInv, SessionInv, NEW r \in Requests, NEW p \in Pairs, p.at = now,
           pairs' = pairs \cup {p}, UNCHANGED <<denied, deniedAll, now, ended>>,
           pc[r] # "done", pc' = [pc EXCEPT ![r] = "done"],
           \A q \in Requests : call'[q].pair = call[q].pair,
           \/ p.sid = r
           \/ /\ \E q \in Pairs : HeldBy(q) /\ q.sid = p.sid /\ q.user = p.user
              /\ p.sid \in ended => Outlived(p.sid, p.user, now)
    PROVE  SessionInv'
  <1>1. \A q \in Pairs : HeldBy(q)' => HeldBy(q) \/ q = p
    BY DEF HeldBy
  <1>p. \A q \in Requests : pc'[q] = IF q = r THEN "done" ELSE pc[q]
    BY DEF TypeInv, StepsTyped
  <1>2. \A s : Made(s) => Made(s)'
    BY <1>p DEF Made
  <1>3. Made(p.sid)' /\ \A q \in Pairs : HeldBy(q) /\ q.sid = p.sid => q.user = p.user
    <2>1. CASE p.sid = r
      BY <1>p, <2>1 DEF Made, SessionInv, OwnersInv
    <2>2. CASE \E q \in Pairs : HeldBy(q) /\ q.sid = p.sid /\ q.user = p.user
      BY <1>2, <2>2 DEF SessionInv, OwnersInv
    <2> QED
      BY <2>1, <2>2
  <1>4. OwnersInv'
    <2>1. \A q \in Pairs : HeldBy(q)' => Made(q.sid)'
      BY <1>1, <1>2, <1>3 DEF SessionInv, OwnersInv
    <2>2. \A q, t \in Pairs : HeldBy(q)' /\ HeldBy(t)' /\ q.sid = t.sid => q.user = t.user
      BY <1>1, <1>3 DEF SessionInv, OwnersInv
    <2>3. \A s \in ended' : Made(s)'
      BY <1>2 DEF SessionInv, OwnersInv
    <2>4. \A q \in pairs' : q.at <= now'
      BY TimesTyped DEF SessionInv, OwnersInv
    <2> QED
      BY <2>1, <2>2, <2>3, <2>4 DEF OwnersInv
  <1>5. RefreshInv'
    BY <1>p DEF SessionInv, RefreshInv, LiveRefresh
  <1>6. p.sid \in ended => Outlived(p.sid, p.user, now)
    BY DEF SessionInv, OwnersInv, Made
  <1>7. EndedInv'
    BY <1>p, <1>6 DEF SessionInv, EndedInv, Outlived
  <1> QED
    BY <1>4, <1>5, <1>7 DEF SessionInv

LEMMA SessionBegin ==
    ASSUME TypeInv, SessionInv, NEW r \in Requests, Begin(r)
    PROVE  SessionInv'
  <1>0. PICK op \in Ops : \E c \in Requesting(op) \cup IF op \in UserOps THEN Commanding(op) ELSE {} :
           call' = [call EXCEPT ![r] = c] /\ Goto(r, FirstStep(c))
    BY DEF Begin
  <1>1. PICK c \in Requesting(op) \cup IF op \in UserOps THEN Commanding(op) ELSE {} :
           call' = [call EXCEPT ![r] = c] /\ Goto(r, FirstStep(c))
    BY <1>0
  <1>2. /\ c \in Calls /\ Sound(c) /\ c.op = op
        /\ c.pair = None \/ c.pair \in pairs
        /\ \/ c.op \in signInRoutes
           \/ c.op \in GuardedOps \ signInRoutes /\ (c.pair # None \/ c.token # None \/ c.op \in UserOps)
    BY RequestingTyped
  <1>3. PICK t : t = FirstStep(c)
    OBVIOUS
  <1>4. t # "refreshRead" /\ (t = "refreshCheck" => c.pair \in pairs)
    <2>1. t # "refreshRead" /\ At(t, c, Nobody)
      BY <1>2, <1>3, FirstStepAt
    <2>2. t = "refreshCheck" => c.pair \in Pairs
      BY <1>2, <2>1 DEF At, Sound
    <2> QED
      BY <1>2, <2>1, <2>2, NamesTyped
  <1>5. UNCHANGED <<pairs, denied, deniedAll, now, ended>>
    BY DEF Begin, tables, clients, history
  <1>6. pc[r] = "idle" /\ \A q \in Requests : pc'[q] = IF q = r THEN t ELSE pc[q]
    BY <1>1, <1>3 DEF Begin, Goto, TypeInv, StepsTyped
  <1>7. \A q \in Requests : call'[q] = IF q = r THEN c ELSE call[q]
    BY <1>1 DEF TypeInv, MemoryTyped
  <1>8. \A p \in Pairs : HeldBy(p)' => HeldBy(p)
    BY <1>2, <1>5, <1>7, NamesTyped DEF HeldBy
  <1>9. \A s : Made(s) => Made(s)'
    BY <1>6 DEF Made
  <1>10. OwnersInv'
    BY <1>5, <1>8, <1>9 DEF SessionInv, OwnersInv
  <1>11. RefreshInv'
    BY <1>4, <1>5, <1>6, <1>7 DEF SessionInv, RefreshInv, LiveRefresh
  <1>12. EndedInv'
    BY <1>4, <1>5, <1>6, <1>7 DEF SessionInv, EndedInv, Outlived
  <1> QED
    BY <1>10, <1>11, <1>12 DEF SessionInv

LEMMA SessionRefresh ==
    ASSUME TypeInv, SessionInv, NEW r \in Requests, RefreshCheck(r) \/ RefreshRead(r)
    PROVE  SessionInv'
  <1>1. PICK p \in Pairs : p = call[r].pair
    BY DEF RefreshCheck, RefreshRead, TypeInv, StepsTyped, At, Sound
  <1>2. UNCHANGED <<denied, deniedAll, now, ended, call>>
    BY DEF RefreshCheck, RefreshRead, Quiet, tables, history
  <1>3. CASE RefreshCheck(r)
    <2>1. UNCHANGED pairs
      BY <1>3 DEF RefreshCheck, clients
    <2>2. CASE Goto(r, "done")
      <3>1. \A q \in Requests : pc'[q] = IF q = r THEN "done" ELSE pc[q]
        BY <2>2 DEF Goto, TypeInv, StepsTyped
      <3> QED
        BY <1>2, <2>1, <3>1, SessionQuiet
    <2>3. CASE Goto(r, "refreshRead") /\ LiveRefresh(p) /\ ~IsRevoked(p.sid, p.user)
      <3>1. \A q \in Requests : pc'[q] = IF q = r THEN "refreshRead" ELSE pc[q]
        BY <2>3 DEF Goto, TypeInv, StepsTyped
      <3>2. p \in pairs
        BY <1>1, <1>3, <2>3 DEF RefreshCheck, SessionInv, RefreshInv
      <3>3. p.sid \notin ended
        <4>1. p.sid \in ended => Outlived(p.sid, p.user, p.at)
          BY <3>2 DEF SessionInv, EndedInv
        <4> QED
          BY <2>3, <4>1, TimesTyped DEF Outlived, LiveRefresh, IsRevoked
      <3>4. \A q \in Pairs : HeldBy(q)' => HeldBy(q)
        BY <1>2, <2>1 DEF HeldBy
      <3>5. pc[r] = "refreshCheck" /\ \A s : Made(s) => Made(s)'
        BY <1>3, <3>1 DEF Made, RefreshCheck
      <3>6. OwnersInv'
        BY <1>2, <2>1, <3>4, <3>5 DEF SessionInv, OwnersInv
      <3>7. RefreshInv'
        BY <1>1, <1>2, <2>1, <3>1, <3>2 DEF SessionInv, RefreshInv, LiveRefresh
      <3>8. EndedInv'
        BY <1>1, <1>2, <2>1, <3>1, <3>3 DEF SessionInv, EndedInv, Outlived
      <3> QED
        BY <3>6, <3>7, <3>8 DEF SessionInv
    <2> QED
      BY <1>1, <1>3, <2>2, <2>3 DEF RefreshCheck, Stop
  <1>4. CASE RefreshRead(r)
    <2>1. pc[r] = "refreshRead" /\ pc' = [pc EXCEPT ![r] = "done"]
      BY <1>4 DEF RefreshRead, Stop, Goto
    <2>2. CASE UNCHANGED pairs
      <3>1. \A q \in Requests : pc'[q] = IF q = r THEN "done" ELSE pc[q]
        BY <2>1 DEF TypeInv, StepsTyped
      <3> QED
        BY <1>2, <2>2, <3>1, SessionQuiet
    <2>3. CASE pairs' = pairs \cup {[sid |-> p.sid, user |-> p.user, role |-> users[p.user].role, at |-> now]}
      <3>1. PICK n \in Pairs : n = [sid |-> p.sid, user |-> p.user, role |-> users[p.user].role, at |-> now]
        <4>1. users[p.user] \in UserRows
          BY TimesTyped DEF TypeInv, TablesTyped
        <4> QED
          BY <4>1, TimesTyped DEF Pairs, UserRows
      <3>2. n.sid = p.sid /\ n.user = p.user /\ n.at = now
        BY <3>1
      <3>3. n.sid \in ended => Outlived(n.sid, n.user, now)
        BY <1>1, <2>1, <3>2 DEF SessionInv, EndedInv
      <3>4. HeldBy(p)
        BY <1>1 DEF HeldBy
      <3> QED
        BY <1>2, <2>1, <2>3, <3>1, <3>2, <3>3, <3>4, SessionSigned
    <2> QED
      BY <1>1, <1>4, <2>2, <2>3 DEF RefreshRead
  <1> QED
    BY <1>3, <1>4

\* What ends a session denies every pair there is of it for as long as the
\* pair can live, and those that a refresh under way may add.
LEMMA SessionEnds ==
    ASSUME TypeInv, SessionInv, NEW r \in Requests, SignOut(r) \/ EndSessions(r)
    PROVE  SessionInv'
  <1>1. UNCHANGED <<pairs, now, call>> /\ Goto(r, "done") /\ pc[r] \in {"signOut", "end"}
    BY DEF SignOut, EndSessions, Stop, Quiet, clients
  <1>2. \A q \in Requests : pc'[q] = IF q = r THEN "done" ELSE pc[q]
    BY <1>1 DEF Goto, TypeInv, StepsTyped
  <1>3. \A q \in Pairs : HeldBy(q)' => HeldBy(q)
    BY <1>1 DEF HeldBy
  <1>4. \A s : Made(s) => Made(s)'
    BY <1>2 DEF Made
  <1>5. RefreshInv'
    BY <1>1, <1>2 DEF SessionInv, RefreshInv, LiveRefresh
  <1>6. CASE UNCHANGED <<denied, deniedAll, ended>>
    BY <1>1, <1>2, <1>6, SessionQuiet
  <1>7. ASSUME NEW es \in SUBSET Ids, ended' = ended \cup es, \A s \in es : Made(s),
               \A s \in Ids : denied'[s] # 0 => denied[s] # 0 \/ s \in es,
               \A s \in Ids : denied[s] <= denied'[s],
               \A u \in Users : deniedAll[u] <= deniedAll'[u],
               \A q \in Pairs : q.sid \in es /\ HeldBy(q) => Outlived(q.sid, q.user, now)'
        PROVE  SessionInv'
    <2>1. OwnersInv'
      BY <1>1, <1>3, <1>4, <1>7 DEF SessionInv, OwnersInv
    <2>n. \A s \in Ids : denied'[s] \in Nat /\ \A u \in Users : deniedAll'[u] \in Nat
      BY SessionTyped, EndTyped DEF TypeInv, TablesTyped
    <2>2. \A s \in Ids, u \in Users, at \in Nat : Outlived(s, u, at) => Outlived(s, u, at)'
      BY <1>1, <1>7, <2>n, TimesTyped DEF Outlived
    <2>3. \A s \in Ids, u \in Users, at \in Nat : at <= now /\ Outlived(s, u, now)' => Outlived(s, u, at)'
      BY <1>1, <2>n, TimesTyped DEF Outlived
    <2>4. \A q \in pairs : HeldBy(q) /\ q.at <= now /\ q.sid \in Ids /\ q.user \in Users /\ q.at \in Nat
                           /\ q \in Pairs
      BY TimesTyped DEF HeldBy, SessionInv, OwnersInv
    <2>5. \A q \in pairs' : q.sid \in ended' => Outlived(q.sid, q.user, q.at)'
      BY <1>1, <1>7, <2>2, <2>3, <2>4 DEF SessionInv, EndedInv
    <2>6. ASSUME NEW q \in Requests, pc'[q] = "refreshRead", call'[q].pair.sid \in ended'
          PROVE  Outlived(call[q].pair.sid, call[q].pair.user, now)'
      <3>1. pc[q] = "refreshRead"
        BY <1>2, <2>6
      <3>2. PICK p \in Pairs : p = call[q].pair
        BY <3>1 DEF TypeInv, StepsTyped, At, Sound
      <3>3. HeldBy(p)
        BY <3>2 DEF HeldBy
      <3>4. p.sid \in Ids /\ p.user \in Users /\ now \in Nat
        BY TimesTyped
      <3>5. p.sid \in ended \/ p.sid \in es
        BY <1>1, <1>7, <2>6, <3>2
      <3>6. p.sid \in ended => Outlived(p.sid, p.user, now)
        BY <3>1, <3>2 DEF SessionInv, EndedInv
      <3>7. Outlived(p.sid, p.user, now)'
        BY <1>1, <1>7, <2>2, <3>3, <3>4, <3>5, <3>6
      <3> QED
        BY <1>1, <3>2, <3>7
    <2>7. EndedInv'
      BY <1>1, <1>7, <2>5, <2>6 DEF SessionInv, EndedInv
    <2> QED
      BY <1>5, <2>1, <2>7 DEF SessionInv
  <1>8. CASE SignOut(r) /\ ~UNCHANGED <<denied, deniedAll, ended>>
    <2>1. PICK p \in Pairs : p = call[r].pair
      BY <1>8 DEF SignOut, TypeInv, StepsTyped, At, Sound
    <2>2. /\ LiveAccess(p) /\ UNCHANGED deniedAll /\ ended' = ended \cup {p.sid}
          /\ denied' = [denied EXCEPT ![p.sid] = IF @ = 0 THEN SignOutUntil(p) ELSE @]
      BY <1>8, <2>1 DEF SignOut
    <2>3. HeldBy(p)
      BY <2>1 DEF HeldBy
    <2>4. {p.sid} \in SUBSET Ids /\ Made(p.sid)
      BY <2>3, TimesTyped DEF SessionInv, OwnersInv
    <2>5. denied[p.sid] = 0
      <3>1. ASSUME denied[p.sid] # 0 PROVE UNCHANGED <<denied, deniedAll, ended>>
        <4>1. p.sid \in ended
          BY <2>4, <3>1 DEF SessionInv, EndedInv
        <4> QED
          BY <2>2, <2>4, <3>1, <4>1 DEF TypeInv, TablesTyped
      <3> QED
        BY <1>8, <3>1
    <2>6. \A s \in Ids : denied'[s] = IF s = p.sid THEN SignOutUntil(p) ELSE denied[s]
      BY <2>2, <2>4, <2>5 DEF TypeInv, TablesTyped
    <2>7. SignOutUntil(p) \in Nat /\ now + RefreshTTL <= SignOutUntil(p)
      BY <2>2, TimesTyped DEF SignOutUntil, LiveAccess
    <2>8. \A q \in Pairs : q.sid = p.sid /\ HeldBy(q) => Outlived(q.sid, q.user, now)'
      BY <1>1, <2>4, <2>6, <2>7 DEF Outlived
    <2>9. \A s \in Ids : denied[s] <= denied'[s] /\ (denied'[s] # 0 => denied[s] # 0 \/ s = p.sid)
      BY <2>5, <2>6, <2>7, TimesTyped
    <2>10. \A u \in Users : deniedAll[u] <= deniedAll'[u]
      BY <2>2, TimesTyped
    <2> QED
      BY <1>7, <2>2, <2>4, <2>8, <2>9, <2>10
  <1>9. CASE EndSessions(r) /\ ~UNCHANGED <<denied, deniedAll, ended>>
    <2>1. PICK u \in Users : u = Target(r)
      BY <1>9, TargetTyped DEF EndSessions
    <2>2. /\ deniedAll[u] = 0 /\ deniedAll' = [deniedAll EXCEPT ![u] = AllUntil] /\ UNCHANGED denied
          /\ ended' = ended \cup {p.sid : p \in {p \in pairs : p.user = u}}
      BY <1>9, <2>1 DEF EndSessions
    <2>3. PICK es \in SUBSET Ids : es = {p.sid : p \in {p \in pairs : p.user = u}}
      BY TimesTyped
    <2>4. \A s \in es : \E p \in pairs : p.sid = s /\ p.user = u /\ p \in Pairs /\ HeldBy(p)
      BY <2>3, TimesTyped DEF HeldBy
    <2>5. \A s \in es : Made(s)
      BY <2>4 DEF SessionInv, OwnersInv
    <2>6. AllUntil \in Nat /\ now + RefreshTTL <= AllUntil
      BY TimesTyped DEF AllUntil
    <2>7. \A v \in Users : deniedAll'[v] = IF v = u THEN AllUntil ELSE deniedAll[v]
      BY <2>2 DEF TypeInv, TablesTyped
    <2>8. \A q \in Pairs : q.sid \in es /\ HeldBy(q) => q.user = u
      BY <2>4 DEF SessionInv, OwnersInv
    <2>9. \A q \in Pairs : q.sid \in es /\ HeldBy(q) => Outlived(q.sid, q.user, now)'
      BY <1>1, <2>6, <2>7, <2>8 DEF Outlived
    <2>10. \A v \in Users : deniedAll[v] <= deniedAll'[v]
      BY <2>2, <2>6, <2>7, TimesTyped
    <2>11. \A s \in Ids : denied[s] <= denied'[s] /\ (denied'[s] # 0 => denied[s] # 0)
      BY <2>2, TimesTyped
    <2> QED
      BY <1>7, <2>2, <2>3, <2>5, <2>9, <2>10, <2>11
  <1> QED
    BY <1>6, <1>8, <1>9

\* What every other step of a request is to the sessions: nothing, or the
\* first pair of one.
LEMMA OtherStep ==
    ASSUME TypeInv, NEW r \in Requests, Serve(r), ~Begin(r), ~RefreshCheck(r), ~RefreshRead(r), ~SignOut(r),
           ~EndSessions(r)
    PROVE  /\ UNCHANGED <<denied, deniedAll, now, ended>> /\ pc[r] # "done"
           /\ \E t \in Steps \ {"refreshCheck", "refreshRead"} :
                 Goto(r, t) /\ (UNCHANGED pairs \/ t = "done")
           /\ UNCHANGED pairs \/ \E u \in Users, row \in UserRows : Issue(r, u, row)
  <1> DEFINE Still == /\ UNCHANGED <<denied, deniedAll, now, ended>> /\ pc[r] # "done"
                      /\ UNCHANGED pairs
             Opens == \E u \in Users, row \in UserRows : Issue(r, u, row)
             Steady == Steps \ {"refreshCheck", "refreshRead"}
  <1>s. \A t \in WritingSteps \cup {"done", "tokenUser", "tokenGet", "providerSave", "read", "subject", "end",
                                    "tokenRevoke"} : t \in Steady
    BY DEF Steps, WritingSteps
  <1>f. ASSUME NEW u \in Users, NEW row \in UserRows, Federated(r, u, row) PROVE UNCHANGED pairs \/ Opens
    BY <1>f DEF Federated, clients
  <1>1. CASE Authenticate(r) \/ TokenUser(r)
    <2>1. Still
      BY <1>1 DEF Authenticate, TokenUser, tables, clients, history
    <2>2. Goto(r, "done") \/ (Goto(r, Handler(call[r].op)) /\ call[r].op \in GuardedOps)
      BY <1>1, AuthEnters, EnterAsks
    <2>3. \A op \in GuardedOps : Handler(op) \in Steady
      <3>1. ASSUME NEW op \in GuardedOps PROVE Handler(op) \in Steady
        <4>1. PICK u \in Users : TRUE
          BY AccessRowsAssumption
        <4>2. Handler([op |-> op].op) \in {"tokenGet", "insert", "providerSave", "read", "done"}
          BY <3>1, <4>1, HandlerAt, [op |-> op].op = op, [user |-> u].user = u
        <4> QED
          BY <1>s, <4>2 DEF WritingSteps
      <3> QED
        BY <3>1
    <2> QED
      BY <1>s, <2>1, <2>2, <2>3
  <1>2. CASE TokenRead(r) \/ Read(r) \/ Count(r) \/ DeleteRow(r) \/ TokenGet(r) \/ TokenRevoke(r) \/ ProviderSave(r)
    <2>1. Still
      BY <1>2 DEF TokenRead, Read, Count, DeleteRow, TokenGet, TokenRevoke, ProviderSave, tables, clients,
                  history, Quiet
    <2>2. \E t \in WritingSteps \cup {"done", "tokenUser", "tokenRevoke"} : Goto(r, t)
      <3>1. ASSUME NEW row PROVE AfterRead(r, row) \in WritingSteps
        BY DEF AfterRead, WritingSteps
      <3> QED
        BY <1>2, <3>1 DEF TokenRead, Read, Count, DeleteRow, TokenGet, TokenRevoke, ProviderSave, Stop,
                          WritingSteps
    <2> QED
      BY <1>s, <2>1, <2>2
  <1>3. CASE Authorize(r) \/ Redeem(r) \/ ByEmail(r) \/ Fail(r)
    <2>1. Still
      BY <1>3 DEF Authorize, Redeem, ByEmail, Fail, tables, clients, history
    <2>2. \E t \in WritingSteps \cup {"done", "subject"} : Goto(r, t)
      BY <1>3 DEF Authorize, Redeem, ByEmail, Fail, Stop, WritingSteps
    <2> QED
      BY <1>s, <2>1, <2>2
  <1>4. CASE Login(r) \/ VerifyTwoFactor(r)
    <2>1. UNCHANGED <<denied, deniedAll, now, ended>> /\ pc[r] # "done"
      BY <1>4 DEF Login, VerifyTwoFactor, tables, history, Quiet
    <2>2. \/ UNCHANGED pairs /\ Goto(r, "done")
          \/ \E u \in Users, row \in UserRows : Complete(r, u, row)
      <3>1. CASE Login(r)
        <4>1. PICK u \in Users : \/ UNCHANGED pairs /\ Goto(r, "done")
                                 \/ Complete(r, u, users[u])
          BY <3>1 DEF Login, Stop, clients
        <4>2. PICK row \in UserRows : row = users[u]
          BY DEF TypeInv, TablesTyped
        <4> QED
          BY <4>1, <4>2
      <3>2. CASE VerifyTwoFactor(r)
        <4>1. PICK u \in Users : u = call[r].user
          BY <3>2 DEF VerifyTwoFactor, TypeInv, StepsTyped, At, Sound
        <4>2. PICK row \in UserRows : row = users[u]
          BY DEF TypeInv, TablesTyped
        <4> QED
          BY <3>2, <4>1, <4>2 DEF VerifyTwoFactor, Stop, clients
      <3> QED
        BY <1>4, <3>1, <3>2
    <2>3. ASSUME NEW u \in Users, NEW row \in UserRows, Complete(r, u, row)
          PROVE  \/ UNCHANGED pairs /\ \E t \in {"spend", "done"} : Goto(r, t)
                 \/ Issue(r, u, row) /\ Goto(r, "done")
      BY <2>3 DEF Complete, Stop, clients
    <2>4. \/ UNCHANGED pairs /\ \E t \in {"spend", "done"} : Goto(r, t)
          \/ Opens /\ Goto(r, "done")
      BY <2>2, <2>3
    <2> QED
      BY <1>s, <2>1, <2>4 DEF WritingSteps
  <1>5. CASE Spend(r)
    <2>1. PICK u \in Users, row \in UserRows : u = Target(r) /\ row = seen[r]
      BY <1>5, TargetTyped DEF Spend, TypeInv, MemoryTyped
    <2>2. UNCHANGED <<denied, deniedAll, now, ended>> /\ pc[r] # "done"
      BY <1>5 DEF Spend, Quiet
    <2>3. \/ UNCHANGED pairs /\ Goto(r, "save")
          \/ Issue(r, u, row) /\ Goto(r, "done")
      BY <1>5, <2>1 DEF Spend, Stop
    <2> QED
      BY <1>s, <2>2, <2>3 DEF WritingSteps
  <1>6. CASE BySubject(r)
    <2>1. UNCHANGED <<denied, deniedAll, now, ended>> /\ pc[r] # "done"
      BY <1>6 DEF BySubject, tables, history
    <2>2. \/ UNCHANGED pairs /\ \E t \in {"save", "email", "done"} : Goto(r, t)
          \/ Goto(r, "done") /\ \E u \in Users : Federated(r, u, users[u])
      BY <1>6 DEF BySubject, Stop, clients
    <2>3. \A u \in Users : users[u] \in UserRows
      BY DEF TypeInv, TablesTyped
    <2>4. ASSUME NEW u \in Users, Federated(r, u, users[u]) PROVE UNCHANGED pairs \/ Opens
      <3>1. PICK row \in UserRows : row = users[u]
        BY <2>3
      <3> QED
        BY <1>f, <2>4, <3>1
    <2> QED
      BY <1>s, <2>1, <2>2, <2>4 DEF WritingSteps
  <1>7. CASE Save(r)
    <2>1. PICK u \in Users, row \in UserRows : u = Target(r) /\ row = seen[r]
      BY <1>7, TargetTyped DEF Save, TypeInv, MemoryTyped
    <2>2. UNCHANGED <<denied, deniedAll, now, ended>> /\ pc[r] # "done"
      BY <1>7 DEF Save, Quiet, history
    <2>3. \/ UNCHANGED pairs /\ \E t \in {"end", "done"} : Goto(r, t)
          \/ Federated(r, u, row) /\ Goto(r, "done")
      <3>1. CASE call[r].op = "OAuthCallback"
        BY <1>7, <2>1, <3>1 DEF Save, Stop, clients
      <3>2. CASE call[r].op # "OAuthCallback"
        BY <1>7, <3>2 DEF Save, Stop, clients
      <3> QED
        BY <3>1, <3>2
    <2> QED
      BY <1>f, <1>s, <2>2, <2>3
  <1>8. CASE Insert(r)
    <2>1. UNCHANGED <<denied, deniedAll, now, ended>> /\ pc[r] # "done" /\ Goto(r, "done")
      BY <1>8 DEF Insert, Quiet, history, Stop
    <2>2. UNCHANGED pairs \/ Opens
      <3>1. CASE call[r].op \in {"CreateToken", "CreateUser"}
        BY <1>8, <3>1 DEF Insert, InsertUser, clients
      <3>2. CASE call[r].op \notin {"CreateToken", "CreateUser"}
        <4>1. PICK row \in UserRows : row = seen[r]
          BY DEF TypeInv, MemoryTyped
        <4>2. UNCHANGED pairs \/ \E u \in Users : Federated(r, u, row)
          BY <1>8, <3>2, <4>1 DEF Insert, InsertUser, clients
        <4> QED
          BY <1>f, <4>2
      <3> QED
        BY <3>1, <3>2
    <2> QED
      BY <1>s, <2>1, <2>2
  <1> HIDE DEF Still, Opens, Steady
  <1> QED
    BY <1>1, <1>2, <1>3, <1>4, <1>5, <1>6, <1>7, <1>8 DEF Serve

LEMMA SessionOther ==
    ASSUME TypeInv, SessionInv, NEW r \in Requests, Serve(r), ~Begin(r), ~RefreshCheck(r), ~RefreshRead(r),
           ~SignOut(r), ~EndSessions(r)
    PROVE  SessionInv'
  <1>1. /\ UNCHANGED <<denied, deniedAll, now, ended>> /\ pc[r] # "done"
        /\ UNCHANGED pairs \/ \E u \in Users, row \in UserRows : Issue(r, u, row)
    BY OtherStep
  <1>2. PICK t \in Steps \ {"refreshCheck", "refreshRead"} : Goto(r, t) /\ (UNCHANGED pairs \/ t = "done")
    BY OtherStep
  <1>3. \A q \in Requests : call'[q].pair = call[q].pair
    BY CallKept DEF SameAsk
  <1>4. pc' = [pc EXCEPT ![r] = t] /\ \A q \in Requests : pc'[q] = IF q = r THEN t ELSE pc[q]
    BY <1>2 DEF Goto, TypeInv, StepsTyped
  <1>5. CASE UNCHANGED pairs
    BY <1>1, <1>3, <1>4, <1>5, SessionQuiet
  <1>6. ASSUME NEW u \in Users, NEW row \in UserRows, Issue(r, u, row), t = "done" PROVE SessionInv'
    <2>1. PICK p \in Pairs : p = [sid |-> r, user |-> u, role |-> row.role, at |-> now]
      BY NamesTyped, TimesTyped DEF Pairs, UserRows
    <2>2. pairs' = pairs \cup {p} /\ p.sid = r /\ p.at = now
      BY <1>6, <2>1 DEF Issue
    <2> QED
      BY <1>1, <1>3, <1>4, <1>6, <2>2, SessionSigned
  <1> QED
    BY <1>1, <1>2, <1>5, <1>6

LEMMA SessionService ==
    ASSUME TypeInv, SessionInv, Tick \/ Prune \/ Crash
    PROVE  SessionInv'
  <1>1. CASE Crash
    <2>1. UNCHANGED <<pairs, denied, deniedAll, now, ended, call>>
      BY <1>1 DEF Crash, tables, clients
    <2>2. \A q \in Requests : pc'[q] \in {"idle", "done"} /\ (pc[q] = "done" => pc'[q] = "done")
      BY <1>1 DEF Crash
    <2> QED
      BY <2>1, <2>2, SessionQuiet
  <1>2. CASE Tick
    <2>1. /\ UNCHANGED <<denied, deniedAll, ended, call, pc>> /\ now' = now + 1
          /\ \A r \in Requests : pc[r] # "refreshRead"
          /\ pairs' = {p \in pairs : now + 1 < p.at + RefreshTTL}
      BY <1>2 DEF Tick, tables, history
    <2>2. pairs' \subseteq pairs /\ \A p \in pairs \ pairs' : ~LiveRefresh(p)'
      BY <2>1, TimesTyped DEF LiveRefresh
    <2>3. \A p \in Pairs : HeldBy(p)' => HeldBy(p)
      BY <2>1, <2>2 DEF HeldBy
    <2>4. OwnersInv'
      BY <2>1, <2>2, <2>3, TimesTyped DEF SessionInv, OwnersInv, Made
    <2>5. RefreshInv'
      <3>1. ASSUME NEW r \in Requests, pc[r] = "refreshCheck"
            PROVE  call[r].pair \in pairs' \/ ~LiveRefresh(call[r].pair)'
        <4>1. PICK p \in Pairs : p = call[r].pair
          BY <3>1 DEF TypeInv, StepsTyped, At, Sound
        <4>2. p \in pairs \/ ~LiveRefresh(p)
          BY <3>1, <4>1 DEF SessionInv, RefreshInv
        <4>3. p \in pairs' \/ ~LiveRefresh(p)'
          BY <2>1, <2>2, <4>2, TimesTyped DEF LiveRefresh
        <4> QED
          BY <2>1, <4>1, <4>3 DEF LiveRefresh
      <3> QED
        BY <2>1, <3>1 DEF RefreshInv
    <2>6. \A s \in Ids, u \in Users, at \in Nat : Outlived(s, u, at) => Outlived(s, u, at)'
      BY <2>1, TimesTyped DEF Outlived
    <2>7. EndedInv'
      BY <2>1, <2>2, <2>6, TimesTyped DEF SessionInv, EndedInv
    <2> QED
      BY <2>4, <2>5, <2>7 DEF SessionInv
  <1>3. CASE Prune
    <2>1. /\ UNCHANGED <<pairs, ended, call, pc, now>>
          /\ \A s \in Ids : denied'[s] = IF denied[s] < now THEN 0 ELSE denied[s]
          /\ \A u \in Users : deniedAll'[u] = IF deniedAll[u] < now THEN 0 ELSE deniedAll[u]
      BY <1>3 DEF Prune, clients, history, Quiet
    <2>2. \A p \in Pairs : HeldBy(p)' => HeldBy(p)
      BY <2>1 DEF HeldBy
    <2>3. OwnersInv' /\ RefreshInv'
      BY <2>1, <2>2 DEF SessionInv, OwnersInv, RefreshInv, Made, LiveRefresh
    <2>4. \A s \in Ids, u \in Users, at \in Nat : Outlived(s, u, at) => Outlived(s, u, at)'
      BY <2>1, TimesTyped DEF Outlived
    <2>5. \A s \in Ids : denied'[s] # 0 => denied[s] # 0
      BY <2>1, TimesTyped
    <2>6. \A r \in Requests : pc[r] = "refreshRead" =>
             call[r].pair.sid \in Ids /\ call[r].pair.user \in Users
      BY DEF TypeInv, StepsTyped, At, Sound, Pairs
    <2>7. EndedInv'
      BY <2>1, <2>4, <2>5, <2>6, TimesTyped DEF SessionInv, EndedInv
    <2> QED
      BY <2>3, <2>7 DEF SessionInv
  <1> QED
    BY <1>1, <1>2, <1>3

LEMMA SessionNext == TypeInv /\ SessionInv /\ [Next]_vars => SessionInv'
  <1> SUFFICES ASSUME TypeInv, SessionInv, [Next]_vars PROVE SessionInv'
    OBVIOUS
  <1>1. ASSUME NEW r \in Requests, Serve(r) PROVE SessionInv'
    BY <1>1, SessionBegin, SessionRefresh, SessionEnds, SessionOther
  <1>2. CASE UNCHANGED vars
    BY <1>2, SessionQuiet DEF vars, tables, clients, history
  <1> QED
    BY <1>1, <1>2, SessionService DEF Next

LEMMA SessionHolds == Spec => []SessionInv
  <1>1. Init => TypeInv /\ SessionInv
    BY InitTyped, SessionInit
  <1>2. TypeInv /\ SessionInv /\ [Next]_vars => (TypeInv /\ SessionInv)'
    BY NextTyped, SessionNext
  <1> QED
    BY <1>1, <1>2, PTL DEF Spec

\* A sign-out, a password change, a demotion or a suspension that has been
\* recorded stays in force: no pair of a session it ended, whenever it was
\* rotated, counts again before it expires (auth.go: Logout, Refresh;
\* repo_auth.go: SessionRepo).
THEOREM EndingsHold == Spec => []EndedStaysEnded
  <1>1. Spec => []TypeInv
    BY InitTyped, NextTyped, PTL DEF Spec
  <1> QED
    BY <1>1, SessionHolds, SessionInvHolds, PTL

-----------------------------------------------------------------------------
(* What a step does to the rows                                            *)

\* The steps between which a request works on the row of its account.
RowSteps == {"spend", "count", "save", "delete"}

\* A row as it was read: still the account's, but for its address, what the
\* identity provider adds, and the code that is struck off.
Copy(s, row) ==
    /\ row.state = "kept" /\ s.state = "kept"
    /\ s.role = row.role /\ s.active = row.active /\ s.factor = row.factor
    /\ row.subject \in {None, s.subject}

\* What is known of the row a request has read, at each of these steps.
SeenAt(t, c, s, row) ==
    /\ Copy(s, row)
    /\ t = "spend" /\ c.op \in signInRoutes => s.active

\* The rows that are written, and by which step.
LEMMA RowsWritten ==
    ASSUME TypeInv, NEW r \in Requests, Serve(r)
    PROVE  \/ UNCHANGED users
           \/ \E u \in Users, row \in UserRows :
                 /\ users' = [users EXCEPT ![u] = row]
                 /\ \/ Spend(r) /\ u = Target(r) /\ row = seen[r]
                    \/ Save(r) /\ u = Target(r) /\ row = Written(r)
                    \/ DeleteRow(r) /\ u = Target(r) /\ row = [users[u] EXCEPT !.state = "deleted"]
                    \/ /\ Insert(r) /\ users[u].state = "none"
                       /\ row.state = "kept" \/ (call[r].op = "OAuthCallback" /\ row = seen[r])
  <1>1. CASE Spend(r)
    <2>1. PICK u \in Users, row \in UserRows : u = Target(r) /\ row = seen[r]
      BY <1>1, TargetTyped DEF Spend, TypeInv, MemoryTyped
    <2> QED
      BY <1>1, <2>1 DEF Spend, SaveUser
  <1>2. CASE Save(r)
    <2>1. PICK u \in Users, row \in UserRows : u = Target(r) /\ row = Written(r)
      BY <1>2, TargetTyped, WrittenTyped DEF Save
    <2>2. UNCHANGED users \/ users' = [users EXCEPT ![u] = row]
      BY <1>2, <2>1 DEF Save, SaveUser
    <2> QED
      BY <1>2, <2>1, <2>2
  <1>3. CASE DeleteRow(r)
    <2>1. PICK u \in Users : u = Target(r)
      BY <1>3, TargetTyped DEF DeleteRow
    <2>2. PICK row \in UserRows : row = [users[u] EXCEPT !.state = "deleted"]
      <3>1. users[u] \in UserRows
        BY DEF TypeInv, TablesTyped
      <3>2. [users[u] EXCEPT !.state = "deleted"] \in UserRows
        BY <3>1 DEF UserRows
      <3> QED
        BY <3>2
    <2>3. UNCHANGED users \/ users' = [users EXCEPT ![u].state = "deleted"]
      BY <1>3, <2>1 DEF DeleteRow
    <2>4. [users EXCEPT ![u].state = "deleted"] = [users EXCEPT ![u] = row]
      BY <2>2 DEF TypeInv, TablesTyped
    <2> QED
      BY <1>3, <2>1, <2>2, <2>3, <2>4
  <1>4. CASE Insert(r)
    <2>1. CASE call[r].op = "CreateToken"
      BY <1>4, <2>1 DEF Insert
    <2>2. ASSUME NEW row \in UserRows, InsertUser(r, row),
                 row.state = "kept" \/ (call[r].op = "OAuthCallback" /\ row = seen[r])
          PROVE  \/ UNCHANGED users
                 \/ \E u \in Users : /\ users[u].state = "none" /\ users' = [users EXCEPT ![u] = row]
      BY <2>2 DEF InsertUser, SaveUser
    <2>3. CASE call[r].op = "CreateUser"
      <3>1. PICK row \in UserRows :
               /\ row = [NoRow EXCEPT !.state = "kept", !.email = call[r].user, !.role = call[r].role,
                                      !.active = TRUE, !.password = TRUE]
               /\ row.state = "kept"
        BY <1>4, <2>3, AddedTyped DEF Insert
      <3>2. InsertUser(r, row)
        BY <1>4, <2>3, <3>1 DEF Insert
      <3>3. PICK new \in UserRows : InsertUser(r, new) /\ new.state = "kept"
        BY <3>1, <3>2
      <3>4. UNCHANGED users \/ \E u \in Users : users[u].state = "none" /\ users' = [users EXCEPT ![u] = new]
        BY <2>2, <3>3
      <3> QED
        BY <1>4, <3>3, <3>4
    <2>4. CASE call[r].op = "OAuthCallback"
      <3>1. PICK row \in UserRows : row = seen[r]
        BY DEF TypeInv, MemoryTyped
      <3>2. InsertUser(r, row)
        BY <1>4, <2>4, <3>1 DEF Insert
      <3> QED
        BY <1>4, <2>2, <2>4, <3>1, <3>2
    <2>5. call[r].op \in {"CreateUser", "CreateToken", "OAuthCallback"}
      BY <1>4 DEF Insert, TypeInv, StepsTyped, At
    <2> QED
      BY <2>1, <2>3, <2>4, <2>5
  <1>5. Begin(r) \/ Authenticate(r) \/ TokenRead(r) \/ TokenUser(r) \/ Login(r) \/ VerifyTwoFactor(r)
        \/ RefreshCheck(r) \/ RefreshRead(r) \/ SignOut(r) \/ Authorize(r) \/ Redeem(r) => UNCHANGED users
    BY DEF Begin, Authenticate, TokenRead, TokenUser, Login, VerifyTwoFactor, RefreshCheck, RefreshRead,
           SignOut, Authorize, Redeem, tables
  <1>6. BySubject(r) \/ ByEmail(r) \/ Read(r) \/ Count(r) \/ EndSessions(r) \/ TokenGet(r)
        \/ TokenRevoke(r) \/ ProviderSave(r) \/ Fail(r) => UNCHANGED users
    BY DEF BySubject, ByEmail, Read, Count, EndSessions, TokenGet, TokenRevoke, ProviderSave, Fail, tables
  <1> QED
    BY <1>1, <1>2, <1>3, <1>4, <1>5, <1>6 DEF Serve

\* What accepting a code leaves of the row it was accepted for.
LEMMA AcceptedCode ==
    ASSUME TypeInv, NEW row \in UserRows, NEW code \in Codes \cup {None}, Accepts(row, code)
    PROVE  /\ code \in Codes /\ Spent(row, code) \in UserRows
           /\ row.state = "kept" => Copy(Spent(row, code), row)
  <1>1. code \in Codes
    BY DEF Accepts
  <1>2. /\ Spent(row, code) \in UserRows
        /\ \A f \in {"state", "role", "active", "factor", "subject"} : Spent(row, code)[f] = row[f]
    BY <1>1, SpentTyped
  <1> QED
    BY <1>1, <1>2 DEF Copy

\* A row is read, and what was found in it leads to this step.
ReadInto(r, u, s, t) ==
    /\ seen' = [seen EXCEPT ![r] = s] /\ Goto(r, t) /\ Target(r)' = u /\ UNCHANGED users
    /\ SeenAt(t, call[r], s, users[u])

\* Or a row that is to be added, if it is not a token that is.
ReadNew(r, s) == seen' = [seen EXCEPT ![r] = s] /\ Goto(r, "insert") /\ s.state = "kept"

LEMMA CompleteReads ==
    ASSUME TypeInv, NEW r \in Requests, NEW u \in Users, Kept(u), users[u].active, Complete(r, u, users[u]),
           call[r].op \in {"Login", "VerifyTwoFactor"}, Target(r)' = u, UNCHANGED users
    PROVE  \/ UNCHANGED seen /\ Goto(r, "done")
           \/ \E s \in UserRows : ReadInto(r, u, s, "spend")
  <1>1. PICK row \in UserRows : row = users[u]
    BY DEF TypeInv, TablesTyped
  <1>2. PICK code \in Codes \cup {None} : code = call[r].code
    BY DEF TypeInv, MemoryTyped, Calls
  <1>3. CASE UNCHANGED seen /\ Goto(r, "done")
    BY <1>3
  <1>4. CASE /\ Accepts(row, code) /\ Goto(r, "spend")
             /\ seen' = [seen EXCEPT ![r] = Spent(row, code)]
    <2>1. PICK s \in UserRows : s = Spent(row, code)
      BY <1>4, AcceptedCode
    <2>2. row.state = "kept" /\ row.active
      BY <1>1 DEF Kept
    <2>3. Copy(s, row)
      BY <1>4, <2>1, <2>2, AcceptedCode
    <2>4. SeenAt("spend", call[r], s, row)
      BY <2>2, <2>3 DEF SeenAt, Copy
    <2> QED
      BY <1>1, <1>4, <2>1, <2>4 DEF ReadInto
  <1> QED
    BY <1>1, <1>2, <1>3, <1>4 DEF Complete, Stop

LEMMA SignInReads ==
    ASSUME TypeInv, NEW r \in Requests, Login(r) \/ VerifyTwoFactor(r)
    PROVE  \/ UNCHANGED seen /\ Goto(r, "done")
           \/ \E u \in Users, s \in UserRows : ReadInto(r, u, s, "spend")
  <1>1. call[r].op \in {"Login", "VerifyTwoFactor"} /\ call[r].op \notin TwoFactorOps
    BY DEF Login, VerifyTwoFactor, TypeInv, StepsTyped, At, TwoFactorOps
  <1>u. UNCHANGED users
    BY DEF Login, VerifyTwoFactor, tables
  <1>2. CASE Login(r)
    <2>1. \/ UNCHANGED seen /\ Goto(r, "done")
          \/ \E u \in Users : /\ Kept(u) /\ users[u].active /\ Complete(r, u, users[u])
                              /\ call' = [call EXCEPT ![r].user = u]
      BY <1>2 DEF Login, Stop
    <2>2. ASSUME NEW u \in Users, call' = [call EXCEPT ![r].user = u] PROVE Target(r)' = u
      <3>1. call'[r].user = u /\ call'[r].op = call[r].op
        BY <2>2, NamedTyped
      <3> QED
        BY <1>1, <3>1 DEF Target
    <2> QED
      BY <1>1, <1>u, <2>1, <2>2, CompleteReads
  <1>3. CASE VerifyTwoFactor(r)
    <2>1. PICK u \in Users : u = call[r].user
      BY <1>3 DEF VerifyTwoFactor, TypeInv, StepsTyped, At, Sound
    <2>2. Target(r)' = u
      BY <1>1, <1>3, <2>1 DEF VerifyTwoFactor, Quiet, Target
    <2>3. \/ UNCHANGED seen /\ Goto(r, "done")
          \/ Kept(u) /\ users[u].active /\ Complete(r, u, users[u])
      BY <1>3, <2>1 DEF VerifyTwoFactor, Stop
    <2> QED
      BY <1>1, <1>u, <2>2, <2>3, CompleteReads
  <1> QED
    BY <1>2, <1>3

LEMMA OAuthReads ==
    ASSUME TypeInv, NEW r \in Requests, BySubject(r) \/ ByEmail(r)
    PROVE  \/ UNCHANGED seen /\ \E t \in {"done", "email"} : Goto(r, t)
           \/ \E u \in Users, s \in UserRows : ReadInto(r, u, s, "save")
           \/ \E s \in UserRows : ReadNew(r, s)
  <1>1. call[r].op = "OAuthCallback" /\ call[r].op \notin TwoFactorOps /\ call[r].profile \in Profiles
    BY DEF BySubject, ByEmail, TypeInv, StepsTyped, At, Sound, TwoFactorOps
  <1>u. UNCHANGED users
    BY DEF BySubject, ByEmail, tables
  <1>2. PICK profile \in Profiles : profile = call[r].profile
    BY <1>1
  <1>3. profile.subject \in Subjects /\ profile.email \in Users
    BY DEF Profiles
  <1>n. PICK name \in ProviderNames, role \in Roles : name = idp[r].name /\ role = idp[r].role
    BY DEF TypeInv, MemoryTyped, ProviderRows
  <1>4. ASSUME NEW u \in Users, Kept(u), call' = [call EXCEPT ![r].user = u], Goto(r, "save"),
               \/ seen' = [seen EXCEPT ![r] = [users[u] EXCEPT !.email = profile.email]]
               \/ /\ users[u].subject \in {None, profile.subject}
                  /\ seen' = [seen EXCEPT ![r] = Linked(users[u], name, profile)]
        PROVE  \E s \in UserRows : ReadInto(r, u, s, "save")
    <2>1. call'[r].user = u /\ call'[r].op = call[r].op
      BY <1>4, NamedTyped
    <2>2. Target(r)' = u
      BY <1>1, <2>1 DEF Target
    <2>3. PICK row \in UserRows : row = users[u]
      BY DEF TypeInv, TablesTyped
    <2>4. PICK moved \in UserRows : moved = [row EXCEPT !.email = profile.email]
      <3>1. [row EXCEPT !.email = profile.email] \in UserRows
        BY <1>3 DEF UserRows
      <3> QED
        BY <3>1
    <2>5. PICK linked \in UserRows : linked = Linked(row, name, profile)
      BY LinkedTyped
    <2>6. row.state = "kept"
      BY <1>4, <2>3 DEF Kept
    <2>7. Copy(moved, row)
      BY <2>4, <2>6 DEF Copy, UserRows
    <2>8. row.subject \in {None, profile.subject} => Copy(linked, row)
      BY <2>5, <2>6, LinkedTyped DEF Copy
    <2>9. ASSUME NEW s \in UserRows, Copy(s, row), seen' = [seen EXCEPT ![r] = s]
          PROVE  ReadInto(r, u, s, "save")
      BY <1>4, <1>u, <2>2, <2>3, <2>9 DEF ReadInto, SeenAt
    <2> QED
      BY <1>4, <2>3, <2>4, <2>5, <2>7, <2>8, <2>9
  <1>5. CASE BySubject(r)
    BY <1>2, <1>4, <1>5 DEF BySubject, Stop
  <1>6. CASE ByEmail(r)
    <2>1. CASE UNCHANGED seen /\ Goto(r, "done")
      BY <2>1
    <2>2. ASSUME NEW u \in Users, Kept(u), MayLink(users[u], profile), call' = [call EXCEPT ![r].user = u],
                 seen' = [seen EXCEPT ![r] = Linked(users[u], name, profile)], Goto(r, "save")
          PROVE  \E s \in UserRows : ReadInto(r, u, s, "save")
      BY <1>4, <2>2 DEF MayLink
    <2>3. CASE /\ Goto(r, "insert")
               /\ seen' = [seen EXCEPT ![r] =
                    Linked([NoRow EXCEPT !.state = "kept", !.email = profile.email,
                                         !.role = role, !.active = TRUE], name, profile)]
      <3>1. PICK s \in UserRows :
               /\ s = Linked([NoRow EXCEPT !.state = "kept", !.email = profile.email,
                                           !.role = role, !.active = TRUE], name, profile)
               /\ s.state = "kept"
        BY SignedUpTyped
      <3> QED
        BY <2>3, <3>1 DEF ReadNew
    <2> QED
      BY <1>2, <1>6, <1>n, <2>1, <2>2, <2>3 DEF ByEmail, Stop
  <1> QED
    BY <1>5, <1>6

LEMMA HandlerReads ==
    ASSUME TypeInv, NEW r \in Requests, Read(r)
    PROVE  \/ UNCHANGED seen /\ Goto(r, "done")
           \/ \E u \in Users, s \in UserRows, t \in RowSteps : ReadInto(r, u, s, t)
           \/ \E s \in UserRows : ReadNew(r, s)
  <1>0. PICK c \in Calls : c = call[r]
    BY DEF TypeInv, MemoryTyped
  <1>1. PICK u \in Users : u = Target(r)
    BY TargetTyped DEF Read
  <1>2. PICK row \in UserRows : row = users[u]
    BY DEF TypeInv, TablesTyped
  <1>u. UNCHANGED users
    BY DEF Read, tables
  <1>3. CASE UNCHANGED seen /\ Goto(r, "done")
    BY <1>3
  <1>4. CASE /\ row.state = "kept" /\ Proceeds(r, row) /\ Goto(r, AfterRead(r, row))
             /\ seen' = [seen EXCEPT ![r] = IF ProvesFactor(r, row) THEN Spent(row, c.code) ELSE row]
    <2>1. Target(r)' = u
      BY <1>1 DEF Read, Quiet, Target
    <2>2. c.op \in TwoFactorOps \cup {"UpdateUser", "DeleteUser", "ResetUserTwoFactor", "CreateToken"}
      BY <1>0 DEF Read, TypeInv, StepsTyped, At
    <2>3. CASE ProvesFactor(r, row)
      <3>1. c.op \in {"DisableTwoFactor", "RegenerateRecoveryCodes"} /\ Accepts(row, c.code)
        BY <1>0, <1>4, <2>3 DEF ProvesFactor, Proceeds, HasTwoFactor
      <3>2. PICK s \in UserRows : s = Spent(row, c.code)
        BY <3>1, AcceptedCode DEF Calls
      <3>3. Copy(s, row)
        BY <1>4, <3>1, <3>2, AcceptedCode DEF Calls
      <3>4. AfterRead(r, row) = "spend"
        BY <1>0, <2>3, <3>1 DEF AfterRead
      <3>5. SeenAt("spend", c, s, row)
        BY <3>1, <3>3 DEF SeenAt, signInRoutes
      <3> QED
        BY <1>0, <1>2, <1>4, <1>u, <2>1, <2>3, <3>2, <3>4, <3>5 DEF ReadInto, RowSteps
    <2>4. CASE ~ProvesFactor(r, row)
      <3>1. seen' = [seen EXCEPT ![r] = row] /\ Copy(row, row)
        BY <1>4, <2>4 DEF Copy
      <3>2. ASSUME NEW t \in {"count", "save", "delete"}, AfterRead(r, row) = t PROVE ReadInto(r, u, row, t)
        <4>1. SeenAt(t, c, row, row)
          BY <3>1, <3>2 DEF SeenAt
        <4> QED
          BY <1>0, <1>2, <1>4, <1>u, <2>1, <3>1, <3>2, <4>1 DEF ReadInto
      <3>3. CASE c.op = "CreateToken"
        <4>1. AfterRead(r, row) = "insert"
          BY <1>0, <3>3 DEF AfterRead, ProvesFactor
        <4> QED
          BY <1>4, <3>1, <4>1 DEF ReadNew
      <3>4. CASE c.op # "CreateToken"
        <4>1. AfterRead(r, row) \in {"count", "save", "delete"}
          BY <1>0, <2>4, <3>4 DEF AfterRead
        <4> QED
          BY <3>2, <4>1 DEF RowSteps
      <3> QED
        BY <3>3, <3>4
    <2> QED
      BY <2>3, <2>4
  <1> QED
    BY <1>0, <1>1, <1>2, <1>3, <1>4 DEF Read, Kept, Stop

\* Every step of a request: where it leads, and what it has read.
LEMMA RowsRead ==
    ASSUME TypeInv, NEW r \in Requests, Serve(r)
    PROVE  /\ pc[r] # "done"
           /\ \E t \in Steps :
                 /\ Goto(r, t)
                 /\ \/ /\ UNCHANGED seen
                       /\ t \in RowSteps => Count(r) \/ Spend(r)
                       /\ t = "insert" => call'[r].op = "CreateUser"
                    \/ t \in RowSteps /\ ~Begin(r) /\ \E u \in Users, s \in UserRows : ReadInto(r, u, s, t)
                    \/ t = "insert" /\ \E s \in UserRows : ReadNew(r, s)
  <1>s. RowSteps \cup {"done", "email", "insert", "tokenUser", "refreshRead", "subject", "end", "tokenRevoke"}
           \subseteq Steps
    BY DEF RowSteps, Steps, WritingSteps
  <1>1. CASE Login(r) \/ VerifyTwoFactor(r)
    <2>1. pc[r] # "done" /\ ~Begin(r)
      BY <1>1 DEF Login, VerifyTwoFactor, Begin
    <2> QED
      BY <1>1, <1>s, <2>1, SignInReads DEF ReadInto, RowSteps
  <1>2. CASE BySubject(r) \/ ByEmail(r)
    <2>1. pc[r] # "done" /\ ~Begin(r)
      BY <1>2 DEF BySubject, ByEmail, Begin
    <2> QED
      BY <1>2, <1>s, <2>1, OAuthReads DEF ReadInto, ReadNew, RowSteps
  <1>3. CASE Read(r)
    <2>1. pc[r] # "done" /\ ~Begin(r)
      BY <1>3 DEF Read, Begin
    <2> QED
      BY <1>3, <1>s, <2>1, HandlerReads DEF ReadInto, ReadNew, RowSteps
  <1>4. CASE Begin(r)
    <2>0. PICK op \in Ops : \E c \in Requesting(op) \cup IF op \in UserOps THEN Commanding(op) ELSE {} :
             call' = [call EXCEPT ![r] = c] /\ Goto(r, FirstStep(c))
      BY <1>4 DEF Begin
    <2>1. PICK c \in Requesting(op) \cup IF op \in UserOps THEN Commanding(op) ELSE {} :
             call' = [call EXCEPT ![r] = c] /\ Goto(r, FirstStep(c))
      BY <2>0
    <2>2. /\ FirstStep(c) \in {"login", "verify", "refreshCheck", "provider", "signOut", "authorize",
                                "auth", "tokenRead", "read", "insert", "done"}
          /\ FirstStep(c) = "insert" => c.op = "CreateUser"
      BY FirstStepAt, RequestingTyped
    <2>3. call'[r] = c /\ UNCHANGED seen /\ pc[r] # "done"
      BY <1>4, <2>1 DEF Begin, memory, TypeInv, MemoryTyped
    <2> QED
      BY <2>1, <2>2, <2>3 DEF RowSteps, Steps, WritingSteps
  <1>5. CASE Authenticate(r) \/ TokenUser(r)
    <2>1. UNCHANGED seen /\ pc[r] # "done"
      BY <1>5 DEF Authenticate, TokenUser
    <2>2. \/ Goto(r, "done")
          \/ Goto(r, Handler(call[r].op)) /\ call[r].op \in GuardedOps
      BY <1>5, AuthEnters, EnterAsks
    <2>3. call'[r].op = call[r].op
      BY <1>5, AuthEnters, EnterAsks DEF SameAsk
    <2>4. ASSUME NEW op \in GuardedOps
          PROVE  /\ Handler(op) \in {"tokenGet", "insert", "providerSave", "read", "done"}
                 /\ Handler(op) = "insert" => op = "CreateUser"
      <3>1. PICK u \in Users : TRUE
        BY AccessRowsAssumption
      <3>2. /\ Handler([op |-> op].op) \in {"tokenGet", "insert", "providerSave", "read", "done"}
            /\ Handler([op |-> op].op) = "insert" => [op |-> op].op = "CreateUser"
        BY <2>4, <3>1, HandlerAt, [op |-> op].op = op, [user |-> u].user = u
      <3> QED
        BY <3>2
    <2> QED
      BY <1>s, <2>1, <2>2, <2>3, <2>4 DEF RowSteps, Steps, WritingSteps
  <1>6. CASE Count(r) \/ Spend(r)
    <2>1. UNCHANGED seen /\ pc[r] # "done"
      BY <1>6 DEF Count, Spend, memory
    <2>2. \E t \in {"delete", "save", "done"} : Goto(r, t)
      BY <1>6 DEF Count, Spend, Stop
    <2> QED
      BY <1>6, <1>s, <2>1, <2>2 DEF RowSteps
  <1>7. ASSUME \/ TokenRead(r) \/ RefreshCheck(r) \/ RefreshRead(r) \/ SignOut(r) \/ Authorize(r) \/ Redeem(r)
               \/ Save(r) \/ EndSessions(r) \/ DeleteRow(r) \/ Insert(r) \/ TokenGet(r) \/ TokenRevoke(r)
               \/ ProviderSave(r) \/ Fail(r)
        PROVE  /\ UNCHANGED seen /\ pc[r] # "done"
               /\ \E t \in {"done", "tokenUser", "refreshRead", "subject", "end", "tokenRevoke"} : Goto(r, t)
    <2>1. CASE TokenRead(r) \/ RefreshCheck(r) \/ RefreshRead(r) \/ SignOut(r) \/ Authorize(r) \/ Redeem(r)
      BY <2>1 DEF TokenRead, RefreshCheck, RefreshRead, SignOut, Authorize, Redeem, Stop, memory
    <2>2. CASE Save(r)
      BY <2>2 DEF Save, Stop, memory
    <2>3. CASE EndSessions(r) \/ DeleteRow(r) \/ Insert(r) \/ TokenGet(r) \/ TokenRevoke(r) \/ ProviderSave(r)
               \/ Fail(r)
      BY <2>3 DEF EndSessions, DeleteRow, Insert, TokenGet, TokenRevoke, ProviderSave, Fail, Stop, memory
    <2> QED
      BY <1>7, <2>1, <2>2, <2>3
  <1>8. ASSUME UNCHANGED seen, pc[r] # "done",
               \E t \in {"done", "tokenUser", "refreshRead", "subject", "end", "tokenRevoke"} : Goto(r, t)
        PROVE  \E t \in Steps : /\ Goto(r, t) /\ UNCHANGED seen
                                /\ t \notin RowSteps /\ t # "insert"
    BY <1>8, <1>s DEF RowSteps
  <1> QED
    BY <1>1, <1>2, <1>3, <1>4, <1>5, <1>6, <1>7, <1>8 DEF Serve

\* The request whose step it is, and the others.
LEMMA ServeFrame ==
    ASSUME TypeInv, NEW r \in Requests, Serve(r)
    PROVE  \A q \in Requests \ {r} :
              /\ pc'[q] = pc[q] /\ call'[q] = call[q] /\ who'[q] = who[q] /\ seen'[q] = seen[q]
              /\ Target(q)' = Target(q)
  <1>1. \A q \in Requests \ {r} : pc'[q] = pc[q] /\ seen'[q] = seen[q]
    BY RowsRead DEF Goto, ReadInto, ReadNew, TypeInv, StepsTyped, MemoryTyped
  <1>2. \A q \in Requests \ {r} : call'[q] = call[q] /\ who'[q] = who[q]
    <2>1. CASE Begin(r)
      BY <2>1 DEF Begin, memory, TypeInv, MemoryTyped
    <2> QED
      BY <2>1, CallKept
  <1> QED
    BY <1>1, <1>2 DEF Target

-----------------------------------------------------------------------------
(* Rows that are added                                                     *)

\* A row that is to be written is of an account; one that is not there yet has
\* no factor.
NewRowInv ==
    /\ \A r \in Requests : pc[r] \in RowSteps => seen[r].state = "kept"
    /\ \A r \in Requests : pc[r] = "insert" /\ call[r].op = "OAuthCallback" => seen[r].state = "kept"
    /\ \A u \in Users : users[u].state = "none" => users[u].factor = "off"

LEMMA NewRowInit == Init => NewRowInv
  BY AccessFirstAssumption DEF NewRowInv, RowSteps, Init

\* Where a step leads, and that the others stay where they are.
LEMMA StepTaken ==
    ASSUME TypeInv, NEW r \in Requests, NEW t \in Steps, Goto(r, t)
    PROVE  \A q \in Requests : pc'[q] = IF q = r THEN t ELSE pc[q]
  BY DEF Goto, TypeInv, StepsTyped

\* A row that is read is of an account that is there, or is to be.
LEMMA SeenKept ==
    ASSUME TypeInv, NewRowInv, NEW r \in Requests, Serve(r)
    PROVE  /\ \A q \in Requests : pc'[q] \in RowSteps => seen'[q].state = "kept"
           /\ \A q \in Requests : pc'[q] = "insert" /\ call'[q].op = "OAuthCallback" => seen'[q].state = "kept"
  <1>0. PICK t \in Steps :
           /\ Goto(r, t)
           /\ \/ /\ UNCHANGED seen
                 /\ t \in RowSteps => Count(r) \/ Spend(r)
                 /\ t = "insert" => call'[r].op = "CreateUser"
              \/ t \in RowSteps /\ \E u \in Users, s \in UserRows : ReadInto(r, u, s, t)
              \/ t = "insert" /\ \E s \in UserRows : ReadNew(r, s)
    BY RowsRead
  <1>1. \A q \in Requests : pc'[q] = IF q = r THEN t ELSE pc[q]
    BY <1>0, StepTaken
  <1>2. \A q \in Requests \ {r} : call'[q] = call[q] /\ seen'[q] = seen[q]
    BY ServeFrame
  <1>3. Count(r) \/ Spend(r) => pc[r] \in RowSteps
    BY DEF Count, Spend, RowSteps
  <1>4. ASSUME NEW s \in UserRows, seen' = [seen EXCEPT ![r] = s], s.state = "kept"
        PROVE  seen'[r].state = "kept"
    BY <1>4 DEF TypeInv, MemoryTyped
  <1>5. t \in RowSteps \/ (t = "insert" /\ call'[r].op = "OAuthCallback") => seen'[r].state = "kept"
    BY <1>0, <1>3, <1>4 DEF NewRowInv, ReadInto, ReadNew, SeenAt, Copy, RowSteps
  <1> QED
    BY <1>1, <1>2, <1>5 DEF NewRowInv

\* A row that is written is of an account that is there, or was.
LEMMA UsersKept ==
    ASSUME TypeInv, NewRowInv, NEW r \in Requests, Serve(r)
    PROVE  \A v \in Users : users'[v].state = "none" => users'[v].factor = "off"
  <1>1. CASE UNCHANGED users
    BY <1>1 DEF NewRowInv
  <1>2. ASSUME NEW u \in Users, NEW row \in UserRows, users' = [users EXCEPT ![u] = row], row.state # "none"
        PROVE  \A v \in Users : users'[v].state = "none" => users'[v].factor = "off"
    BY <1>2 DEF NewRowInv, TypeInv, TablesTyped
  <1>3. ASSUME NEW u \in Users, NEW row \in UserRows,
               \/ Spend(r) /\ u = Target(r) /\ row = seen[r]
               \/ Save(r) /\ u = Target(r) /\ row = Written(r)
               \/ DeleteRow(r) /\ u = Target(r) /\ row = [users[u] EXCEPT !.state = "deleted"]
               \/ /\ Insert(r) /\ users[u].state = "none"
                  /\ row.state = "kept" \/ (call[r].op = "OAuthCallback" /\ row = seen[r])
        PROVE  row.state # "none"
    <2>1. CASE Spend(r) /\ row = seen[r]
      BY <2>1 DEF Spend, NewRowInv, RowSteps
    <2>2. CASE Save(r) /\ row = Written(r)
      BY <2>2, WrittenTyped DEF Save, NewRowInv, RowSteps
    <2>3. CASE DeleteRow(r) /\ row = [users[u] EXCEPT !.state = "deleted"]
      BY <2>3 DEF TypeInv, TablesTyped, UserRows
    <2>4. CASE Insert(r) /\ (row.state = "kept" \/ (call[r].op = "OAuthCallback" /\ row = seen[r]))
      BY <2>4 DEF Insert, NewRowInv
    <2> QED
      BY <1>3, <2>1, <2>2, <2>3, <2>4
  <1> QED
    BY <1>1, <1>2, <1>3, RowsWritten

LEMMA NewRowNext == TypeInv /\ NewRowInv /\ [Next]_vars => NewRowInv'
  <1> SUFFICES ASSUME TypeInv, NewRowInv, [Next]_vars PROVE NewRowInv'
    OBVIOUS
  <1>1. ASSUME NEW r \in Requests, Serve(r) PROVE NewRowInv'
    BY <1>1, SeenKept, UsersKept DEF NewRowInv
  <1>2. CASE Tick \/ Prune \/ Crash \/ UNCHANGED vars
    <2>1. UNCHANGED <<users, seen, call>>
      BY <1>2 DEF Tick, Prune, Crash, Quiet, vars, tables, memory
    <2>2. \A q \in Requests : pc'[q] = pc[q] \/ pc'[q] = "done"
      BY <1>2 DEF Tick, Prune, Crash, vars
    <2> QED
      BY <2>1, <2>2 DEF NewRowInv, RowSteps
  <1> QED
    BY <1>1, <1>2 DEF Next

-----------------------------------------------------------------------------
(* One writer at a time                                                    *)

\* Nobody else is about to write a row.
Alone == \A r, q \in Requests : pc[r] \in WritingSteps /\ pc[q] \in WritingSteps => r = q

\* The row a request has read is still the account's.
SeenInv(r) == pc[r] \in RowSteps => SeenAt(pc[r], call[r], seen[r], users[Target(r)])

WriterInv == Alone /\ \A r \in Requests : SeenInv(r)

LEMMA WriterInit == Init => WriterInv
  BY DEF Init, WriterInv, Alone, SeenInv, RowSteps, WritingSteps

\* A step of a request that writes finds no other about to write.
LEMMA OthersWait ==
    ASSUME TypeInv, Alone, NEW r \in Requests, NEW t \in Steps, Goto(r, t), clean'
    PROVE  /\ clean /\ Alone'
           /\ pc[r] \in WritingSteps \/ t \in WritingSteps =>
                 \A q \in Requests \ {r} : pc[q] \notin WritingSteps
  <1>1. \A q \in Requests : pc'[q] = IF q = r THEN t ELSE pc[q]
    BY StepTaken
  <1>2. clean /\ (t \in WritingSteps => \A q \in Requests \ {r} : pc[q] \notin WritingSteps)
    BY DEF Goto, TypeInv, StepsTyped
  <1>3. pc[r] \in WritingSteps => \A q \in Requests \ {r} : pc[q] \notin WritingSteps
    BY DEF Alone
  <1>4. Alone'
    BY <1>1, <1>2, <1>3 DEF Alone
  <1> QED
    BY <1>2, <1>3, <1>4

\* The step of another request leaves what one has read as it is.
LEMMA SeenOther ==
    ASSUME TypeInv, WriterInv, NEW r \in Requests, Serve(r), clean', NEW q \in Requests \ {r}
    PROVE  SeenInv(q)'
  <1>1. PICK t \in Steps : Goto(r, t)
    BY RowsRead
  <1>2. /\ pc'[q] = pc[q] /\ call'[q] = call[q] /\ seen'[q] = seen[q]
        /\ Target(q)' = Target(q)
    BY ServeFrame
  <1>3. CASE pc[q] \in RowSteps
    <2>1. pc[r] \notin WritingSteps
      BY <1>1, <1>3, OthersWait DEF WriterInv, RowSteps, WritingSteps
    <2>2. Spend(r) \/ Save(r) \/ DeleteRow(r) \/ Insert(r) => pc[r] \in WritingSteps
      BY DEF Spend, Save, DeleteRow, Insert, WritingSteps
    <2>3. UNCHANGED users
      BY <2>1, <2>2, RowsWritten
    <2>4. SeenInv(q)
      BY DEF WriterInv
    <2> QED
      BY <1>2, <2>3, <2>4 DEF SeenInv
  <1>4. CASE pc[q] \notin RowSteps
    BY <1>2, <1>4 DEF SeenInv
  <1> QED
    BY <1>3, <1>4

LEMMA SeenOwn ==
    ASSUME TypeInv, WriterInv, NEW r \in Requests, Serve(r), clean'
    PROVE  SeenInv(r)'
  <1>0. PICK t \in Steps :
           /\ Goto(r, t)
           /\ \/ /\ UNCHANGED seen
                 /\ t \in RowSteps => Count(r) \/ Spend(r)
              \/ t \in RowSteps /\ ~Begin(r) /\ \E u \in Users, s \in UserRows : ReadInto(r, u, s, t)
              \/ t = "insert"
    BY RowsRead
  <1>1. pc'[r] = t
    BY <1>0, StepTaken
  <1>2. CASE t \notin RowSteps
    BY <1>1, <1>2 DEF SeenInv
  <1>3. ASSUME NEW u \in Users, NEW s \in UserRows, ReadInto(r, u, s, t), ~Begin(r) PROVE SeenInv(r)'
    <2>1. seen'[r] = s /\ Target(r)' = u /\ users' = users
      BY <1>3 DEF ReadInto, TypeInv, MemoryTyped
    <2>2. call'[r].op = call[r].op
      BY <1>3, CallKept DEF SameAsk
    <2>3. SeenAt(t, call'[r], s, users[u])
      BY <1>3, <2>2 DEF ReadInto, SeenAt
    <2> QED
      BY <1>1, <2>1, <2>3 DEF SeenInv
  <1>4. CASE Count(r) /\ t \in RowSteps
    <2>1. PICK u \in Users : u = Target(r)
      BY <1>4, TargetTyped DEF Count
    <2>2. UNCHANGED <<users, seen, call, who>> /\ pc[r] = "count"
      BY <1>4 DEF Count, tables, memory, Quiet
    <2>3. SeenAt("count", call[r], seen[r], users[u])
      BY <2>1, <2>2 DEF WriterInv, SeenInv, RowSteps
    <2>4. t \in {"save", "delete"}
      <3>1. \E k \in {"done", "save", "delete"} : Goto(r, k)
        BY <1>4 DEF Count, Stop
      <3> QED
        BY <1>1, <1>4, <3>1 DEF Goto, RowSteps, TypeInv, StepsTyped
    <2>5. SeenAt(t, call[r], seen[r], users[u])
      BY <2>3, <2>4 DEF SeenAt
    <2>6. Target(r)' = u
      BY <2>1, <2>2 DEF Target
    <2> QED
      BY <1>1, <2>2, <2>5, <2>6 DEF SeenInv
  <1>5. CASE Spend(r) /\ t \in RowSteps
    <2>1. PICK u \in Users : u = Target(r)
      BY <1>5, TargetTyped DEF Spend
    <2>2. UNCHANGED <<seen, call, who>> /\ pc[r] = "spend" /\ users' = [users EXCEPT ![u] = seen[r]]
      BY <1>5, <2>1 DEF Spend, SaveUser, memory, Quiet
    <2>3. Goto(r, "done") \/ Goto(r, "save")
      BY <1>5 DEF Spend, Stop
    <2>4. t = "save"
      BY <1>1, <1>5, <2>3 DEF Goto, RowSteps, TypeInv, StepsTyped
    <2>5. SeenAt("spend", call[r], seen[r], users[u])
      BY <2>1, <2>2 DEF WriterInv, SeenInv, RowSteps
    <2>6. users'[u] = seen[r] /\ seen[r] \in UserRows
      BY <2>2 DEF TypeInv, TablesTyped, MemoryTyped
    <2>7. SeenAt("save", call[r], seen[r], seen[r])
      BY <2>5 DEF SeenAt, Copy
    <2>8. Target(r)' = u
      BY <2>1, <2>2 DEF Target
    <2> QED
      BY <1>1, <2>2, <2>4, <2>6, <2>7, <2>8 DEF SeenInv
  <1> QED
    BY <1>0, <1>2, <1>3, <1>4, <1>5 DEF RowSteps

LEMMA WriterServe ==
    ASSUME TypeInv, WriterInv, NEW r \in Requests, Serve(r), clean'
    PROVE  WriterInv'
  <1>1. Alone'
    BY RowsRead, OthersWait DEF WriterInv
  <1> QED
    BY <1>1, SeenOwn, SeenOther DEF WriterInv

\* What a handler writes is of the row it was made from.
LEMMA WrittenFrom ==
    ASSUME TypeInv, NEW r \in Requests, pc[r] = "save", NEW u \in Users, u = Target(r), SeenInv(r)
    PROVE  LET row == users[u]  new == Written(r) IN
           /\ row.state = "kept" /\ new.state = "kept" /\ row.subject \in {None, new.subject}
           /\ call[r].op # "UpdateUser" => new.role = row.role /\ new.active = row.active
           /\ call[r].op = "UpdateUser" =>
                 /\ new.role = IF call[r].edit.role = None THEN row.role ELSE call[r].edit.role
                 /\ new.active = IF call[r].edit.active = None THEN row.active ELSE call[r].edit.active
           /\ call[r].op = "OAuthCallback" => new.factor = row.factor /\ new = seen[r]
  <1>1. PICK row \in UserRows, s \in UserRows : row = users[u] /\ s = seen[r]
    BY DEF TypeInv, TablesTyped, MemoryTyped
  <1>2. Copy(s, row)
    BY <1>1 DEF SeenInv, SeenAt, RowSteps
  <1>3. /\ s.state = "kept" /\ row.state = "kept" /\ s.role = row.role /\ s.active = row.active
        /\ s.factor = row.factor /\ row.subject \in {None, s.subject}
    BY <1>2 DEF Copy
  <1>4. /\ Written(r).state = s.state /\ Written(r).subject = s.subject
        /\ call[r].op # "UpdateUser" => Written(r).role = s.role /\ Written(r).active = s.active
        /\ call[r].op = "OAuthCallback" => Written(r) = s
    BY <1>1, WrittenTyped
  <1> QED
    BY <1>1, <1>3, <1>4, WrittenTyped

-----------------------------------------------------------------------------
(* What holds as long as no two requests had a row to write back at once   *)

CleanInv == clean => WriterInv

\* The clock, the maintenance job and a crash write no row.
LEMMA CleanQuiet ==
    ASSUME CleanInv, UNCHANGED <<users, seen, call, who, clean>>,
           \A r \in Requests : pc'[r] \in {pc[r], "done"}
    PROVE  CleanInv'
  <1> SUFFICES ASSUME clean PROVE WriterInv'
    BY DEF CleanInv
  <1>1. WriterInv
    BY DEF CleanInv
  <1>2. "done" \notin WritingSteps /\ "done" \notin RowSteps
    BY DEF WritingSteps, RowSteps
  <1>3. Alone'
    BY <1>1, <1>2 DEF WriterInv, Alone
  <1>4. ASSUME NEW r \in Requests PROVE SeenInv(r)'
    <2>1. SUFFICES ASSUME pc'[r] \in RowSteps
                   PROVE  SeenAt(pc'[r], call[r], seen[r], users[Target(r)])
      BY DEF SeenInv, SeenAt, Copy, Target
    <2>2. pc'[r] = pc[r]
      BY <1>2, <2>1
    <2> QED
      BY <1>1, <2>1, <2>2 DEF WriterInv, SeenInv
  <1> QED
    BY <1>3, <1>4 DEF WriterInv

LEMMA CleanNext == TypeInv /\ CleanInv /\ [Next]_vars => CleanInv'
  <1> SUFFICES ASSUME TypeInv, CleanInv, [Next]_vars PROVE CleanInv'
    OBVIOUS
  <1>1. ASSUME NEW r \in Requests, Serve(r), clean' PROVE WriterInv'
    <2>1. PICK t \in Steps : Goto(r, t)
      BY <1>1, RowsRead
    <2>2. WriterInv
      BY <1>1, <2>1 DEF Goto, CleanInv
    <2> QED
      BY <1>1, <2>2, WriterServe
  <1>2. CASE Tick \/ Prune \/ UNCHANGED vars
    <2>1. UNCHANGED <<users, seen, call, who, clean, pc>>
      BY <1>2 DEF Tick, Prune, Quiet, vars, tables, memory
    <2> QED
      BY <2>1, CleanQuiet
  <1>3. CASE Crash
    <2>1. UNCHANGED <<users, seen, call, who, clean>>
      BY <1>3 DEF Crash, tables, memory
    <2>2. \A r \in Requests : pc'[r] \in {pc[r], "done"}
      BY <1>3 DEF Crash
    <2> QED
      BY <2>1, <2>2, CleanQuiet
  <1> QED
    BY <1>1, <1>2, <1>3 DEF Next, CleanInv

RowInv == TypeInv /\ NewRowInv /\ CleanInv

LEMMA RowInvHolds == Spec => []RowInv
  <1>1. Init => RowInv
    BY InitTyped, NewRowInit, WriterInit DEF RowInv, CleanInv
  <1>2. RowInv /\ [Next]_vars => RowInv'
    BY NextTyped, NewRowNext, CleanNext DEF RowInv
  <1> QED
    BY <1>1, <1>2, PTL DEF Spec

-----------------------------------------------------------------------------
(* The pairs that are signed                                               *)

\* The second factor of a pair's account has been asked for, if it has one.
FactorAsked(p, code) ==
    \/ ~HasTwoFactor(users[p.user])
    \/ \E q \in pairs : q.sid = p.sid
    \/ [by |-> p.sid, user |-> p.user, code |-> code] \in accepted'

\* A pair that is signed has the role of its account, which may sign in.
Signed(p, code) ==
    /\ pairs' = pairs \cup {p} /\ FactorAsked(p, code)
    /\ users'[p.user].state = "kept" /\ users'[p.user].active /\ users'[p.user].role = p.role

LEMMA SignedNow ==
    ASSUME TypeInv, NEW r \in Requests, NEW u \in Users, NEW code, Issue(r, u, users[u]), UNCHANGED users,
           Kept(u), users[u].active, ~HasTwoFactor(users[u])
    PROVE  \E p \in Pairs : Signed(p, code)
  <1>1. PICK row \in UserRows : row = users[u]
    BY DEF TypeInv, TablesTyped
  <1>2. PICK p \in Pairs : p = [sid |-> r, user |-> u, role |-> row.role, at |-> now]
    BY NamesTyped, TimesTyped DEF Pairs, UserRows
  <1>3. pairs' = pairs \cup {p} /\ p.user = u /\ p.role = users[u].role
    BY <1>1, <1>2 DEF Issue
  <1> QED
    BY <1>3 DEF Signed, FactorAsked, Kept

\* Whatever step signs one.
LEMMA PairsSigned ==
    ASSUME TypeInv, SessionInv, NewRowInv, WriterInv, NEW r \in Requests, Serve(r)
    PROVE  UNCHANGED pairs \/ \E p \in Pairs : Signed(p, call[r].code)
  <1> DEFINE Opens == \E p \in Pairs : Signed(p, call[r].code)
  <1>1. CASE ~(Login(r) \/ VerifyTwoFactor(r) \/ RefreshRead(r) \/ Spend(r) \/ BySubject(r) \/ Save(r) \/ Insert(r))
    BY <1>1 DEF Serve, Begin, Authenticate, TokenRead, TokenUser, RefreshCheck, SignOut, Authorize, Redeem,
                ByEmail, Read, Count, EndSessions, DeleteRow, TokenGet, TokenRevoke, ProviderSave, Fail, clients
  <1>2. CASE Login(r)
    <2>1. UNCHANGED users
      BY <1>2 DEF Login, tables
    <2>2. UNCHANGED pairs \/ \E u \in Users : /\ Kept(u) /\ users[u].active /\ ~HasTwoFactor(users[u])
                                              /\ Issue(r, u, users[u])
      BY <1>2 DEF Login, Complete, clients
    <2> QED
      BY <2>1, <2>2, SignedNow
  <1>3. CASE VerifyTwoFactor(r)
    <2>1. PICK u \in Users : u = call[r].user
      BY <1>3 DEF VerifyTwoFactor, TypeInv, StepsTyped, At, Sound
    <2>2. UNCHANGED users
      BY <1>3 DEF VerifyTwoFactor, tables
    <2>3. UNCHANGED pairs \/ /\ Kept(u) /\ users[u].active /\ ~HasTwoFactor(users[u])
                             /\ Issue(r, u, users[u])
      BY <1>3, <2>1 DEF VerifyTwoFactor, Complete, clients
    <2> QED
      BY <2>2, <2>3, SignedNow
  <1>4. CASE RefreshRead(r)
    <2>1. PICK q \in Pairs : q = call[r].pair /\ q \in pairs
      BY <1>4, TimesTyped DEF RefreshRead, SessionInv, RefreshInv
    <2>2. PICK u \in Users : u = q.user
      BY TimesTyped
    <2>3. PICK row \in UserRows : row = users[u]
      BY DEF TypeInv, TablesTyped
    <2>4. PICK p \in Pairs : p = [sid |-> q.sid, user |-> u, role |-> row.role, at |-> now]
      BY <2>2, NamesTyped, TimesTyped DEF Pairs, UserRows
    <2>5. UNCHANGED users
      BY <1>4 DEF RefreshRead, tables
    <2>6. UNCHANGED pairs \/ (pairs' = pairs \cup {p} /\ Kept(u) /\ row.active)
      BY <1>4, <2>1, <2>2, <2>3, <2>4 DEF RefreshRead
    <2>7. p.sid = q.sid /\ p.user = u /\ p.role = row.role
      BY <2>4
    <2> QED
      BY <2>1, <2>3, <2>5, <2>6, <2>7 DEF Signed, FactorAsked, Kept
  <1>5. CASE Spend(r)
    <2>1. PICK u \in Users, s \in UserRows : u = Target(r) /\ s = seen[r]
      BY <1>5, TargetTyped DEF Spend, TypeInv, MemoryTyped
    <2>2. PICK p \in Pairs : p = [sid |-> r, user |-> u, role |-> s.role, at |-> now]
      BY NamesTyped, TimesTyped DEF Pairs, UserRows
    <2>3. CASE call[r].op \in signInRoutes
      <3>1. pairs' = pairs \cup {p} /\ p.sid = r /\ p.user = u /\ p.role = s.role
        BY <1>5, <2>1, <2>2, <2>3 DEF Spend, Issue
      <3>2. [by |-> r, user |-> u, code |-> call[r].code] \in accepted' /\ users' = [users EXCEPT ![u] = s]
        BY <1>5, <2>1 DEF Spend, SaveUser
      <3>3. SeenAt("spend", call[r], s, users[u])
        BY <1>5, <2>1 DEF Spend, WriterInv, SeenInv, RowSteps
      <3>4. s.state = "kept" /\ s.active
        BY <2>3, <3>3 DEF SeenAt, Copy
      <3>5. users'[u] = s
        BY <3>2 DEF TypeInv, TablesTyped
      <3> QED
        BY <3>1, <3>2, <3>4, <3>5 DEF Signed, FactorAsked
    <2>4. CASE call[r].op \notin signInRoutes
      BY <1>5, <2>4 DEF Spend
    <2> QED
      BY <2>3, <2>4
  <1>6. CASE BySubject(r)
    <2>1. UNCHANGED users
      BY <1>6 DEF BySubject, tables
    <2>2. UNCHANGED pairs \/ \E u \in Users : /\ Kept(u) /\ users[u].active /\ ~HasTwoFactor(users[u])
                                              /\ Issue(r, u, users[u])
      BY <1>6 DEF BySubject, Federated, AsksCode, clients
    <2> QED
      BY <2>1, <2>2, SignedNow
  <1>7. CASE Save(r)
    <2>1. PICK u \in Users, s \in UserRows : u = Target(r) /\ s = seen[r]
      BY <1>7, TargetTyped DEF Save, TypeInv, MemoryTyped
    <2>2. PICK p \in Pairs : p = [sid |-> r, user |-> u, role |-> s.role, at |-> now]
      BY NamesTyped, TimesTyped DEF Pairs, UserRows
    <2>3. ASSUME ~UNCHANGED pairs
          PROVE  /\ call[r].op = "OAuthCallback" /\ users' = [users EXCEPT ![u] = Written(r)]
                 /\ s.active /\ ~HasTwoFactor(s) /\ pairs' = pairs \cup {p}
      BY <1>7, <2>1, <2>2, <2>3 DEF Save, SaveUser, Federated, AsksCode, Issue, clients
    <2>4. ASSUME ~UNCHANGED pairs
          PROVE  /\ users'[u] = s /\ s.state = "kept" /\ s.factor = users[u].factor
      <3>1. pc[r] = "save" /\ SeenInv(r)
        BY <1>7 DEF Save, WriterInv
      <3>2. call[r].op = "OAuthCallback"
        BY <2>3, <2>4
      <3>3. Written(r) = s /\ s.state = "kept" /\ s.factor = users[u].factor
        BY <2>1, <3>1, <3>2, WrittenFrom
      <3> QED
        BY <2>3, <2>4, <3>3 DEF TypeInv, TablesTyped
    <2>5. p.user = u /\ p.role = s.role
      BY <2>2
    <2> QED
      BY <2>3, <2>4, <2>5 DEF Signed, FactorAsked, HasTwoFactor
  <1>8. CASE Insert(r)
    <2>1. PICK s \in UserRows : s = seen[r]
      BY DEF TypeInv, MemoryTyped
    <2>2. ASSUME ~UNCHANGED pairs
          PROVE  /\ call[r].op = "OAuthCallback"
                 /\ \E u \in Users : /\ users[u].state = "none" /\ users' = [users EXCEPT ![u] = s]
                                     /\ Federated(r, u, s)
      <3>1. call[r].op \in {"CreateUser", "CreateToken", "OAuthCallback"}
        BY <1>8 DEF Insert, TypeInv, StepsTyped, At
      <3>2. call[r].op = "OAuthCallback"
        BY <1>8, <2>2, <3>1 DEF Insert, InsertUser, clients
      <3> QED
        BY <1>8, <2>1, <2>2, <3>2 DEF Insert, InsertUser, SaveUser, clients
    <2>3. CASE ~UNCHANGED pairs
      <3>1. PICK u \in Users : /\ users[u].state = "none" /\ users' = [users EXCEPT ![u] = s]
                               /\ Federated(r, u, s)
        BY <2>2, <2>3
      <3>2. PICK p \in Pairs : p = [sid |-> r, user |-> u, role |-> s.role, at |-> now]
        BY NamesTyped, TimesTyped DEF Pairs, UserRows
      <3>3. s.active /\ pairs' = pairs \cup {p} /\ p.user = u /\ p.role = s.role
        BY <2>3, <3>1, <3>2 DEF Federated, Issue, clients
      <3>4. s.state = "kept"
        BY <1>8, <2>1, <2>2, <2>3 DEF Insert, NewRowInv
      <3>5. ~HasTwoFactor(users[u])
        BY <3>1 DEF NewRowInv, HasTwoFactor
      <3>6. users'[u] = s
        BY <3>1 DEF TypeInv, TablesTyped
      <3> QED
        BY <3>3, <3>4, <3>5, <3>6 DEF Signed, FactorAsked
    <2> QED
      BY <2>3
  <1> QED
    BY <1>1, <1>2, <1>3, <1>4, <1>5, <1>6, <1>7, <1>8

-----------------------------------------------------------------------------
(* What no step does to a session or an account                            *)

\* The steps of a request from a state where, so far, nobody else has had a
\* row to write back.
LEMMA CleanBefore ==
    ASSUME RowInv, NEW r \in Requests, Serve(r), clean'
    PROVE  clean /\ WriterInv
  <1>1. PICK t \in Steps : Goto(r, t)
    BY RowsRead DEF RowInv
  <1> QED
    BY <1>1 DEF Goto, RowInv, CleanInv

\* As long as no two requests had a row to write back at once, a new session of
\* an account with a second factor has seen a code of it: completeLogin of
\* service/auth.go, CompleteTwoFactorLogin of twofactor.go and LoginWithOAuth of
\* oauth.go sign no first pair of such an account but behind verifySecondFactor.
THEOREM FactorAlwaysAsked == Spec => FactorIsAsked
  <1>1. RowInv /\ SessionInv /\ [Next]_vars
        => [clean' => \A p \in pairs' \ pairs :
               HasTwoFactor(users[p.user]) /\ (\A q \in pairs : q.sid # p.sid)
                 => \E a \in accepted' : a.by = p.sid /\ a.user = p.user]_vars
    <2> SUFFICES ASSUME RowInv, SessionInv, [Next]_vars, clean', NEW p \in pairs' \ pairs,
                        HasTwoFactor(users[p.user]), \A q \in pairs : q.sid # p.sid
                 PROVE  \E a \in accepted' : a.by = p.sid /\ a.user = p.user
      OBVIOUS
    <2>1. CASE \E r \in Requests : Serve(r)
      <3>1. PICK r \in Requests : Serve(r)
        BY <2>1
      <3>2. PICK made \in Pairs : Signed(made, call[r].code)
        BY <3>1, CleanBefore, PairsSigned DEF RowInv
      <3>3. p = made
        BY <3>2 DEF Signed
      <3>4. [by |-> p.sid, user |-> p.user, code |-> call[r].code] \in accepted'
        BY <3>2, <3>3 DEF Signed, FactorAsked
      <3> QED
        BY <3>4
    <2>2. CASE Tick \/ Prune \/ Crash \/ UNCHANGED vars
      BY <2>2 DEF Tick, Prune, Crash, vars, clients
    <2> QED
      BY <2>1, <2>2 DEF Next
  <1> QED
    BY <1>1, RowInvHolds, SessionHolds, PTL DEF Spec, FactorIsAsked

\* As long as no two requests had a row to write back at once, an account that
\* is linked to a subject is never linked to another: linkOAuthUser of
\* service/oauth.go links an account that has none or the same one, and whoever
\* saves the row has read the subject in it.  The provider's name in the row may
\* change: linkOAuthUser does not compare it.
THEOREM SubjectStays == Spec => SubjectKeepsAccount
  <1>1. RowInv /\ [Next]_vars
        => [clean' => \A u \in Users :
               Kept(u) /\ users[u].subject # None => users'[u].subject = users[u].subject]_vars
    <2> SUFFICES ASSUME RowInv, [Next]_vars, clean', NEW v \in Users, Kept(v), users[v].subject # None
                 PROVE  users'[v].subject = users[v].subject
      OBVIOUS
    <2>1. CASE \E r \in Requests : Serve(r)
      <3>1. PICK r \in Requests : Serve(r)
        BY <2>1
      <3>2. TypeInv /\ WriterInv
        BY <3>1, CleanBefore DEF RowInv
      <3>3. CASE UNCHANGED users
        BY <3>3
      <3>4. CASE ~UNCHANGED users
        <4>1. PICK u \in Users, row \in UserRows :
                 /\ users' = [users EXCEPT ![u] = row]
                 /\ \/ Spend(r) /\ u = Target(r) /\ row = seen[r]
                    \/ Save(r) /\ u = Target(r) /\ row = Written(r)
                    \/ DeleteRow(r) /\ u = Target(r) /\ row = [users[u] EXCEPT !.state = "deleted"]
                    \/ /\ Insert(r) /\ users[u].state = "none"
                       /\ row.state = "kept" \/ (call[r].op = "OAuthCallback" /\ row = seen[r])
          BY <3>1, <3>2, <3>4, RowsWritten
        <4>2. users'[v] = IF v = u THEN row ELSE users[v]
          BY <3>2, <4>1 DEF TypeInv, TablesTyped
        <4>3. ASSUME u = v PROVE row.subject = users[v].subject
          <5>1. CASE Spend(r) /\ u = Target(r) /\ row = seen[r]
            <6>1. SeenAt("spend", call[r], seen[r], users[u])
              BY <3>2, <5>1 DEF Spend, WriterInv, SeenInv, RowSteps
            <6> QED
              BY <4>3, <5>1, <6>1 DEF SeenAt, Copy
          <5>2. CASE Save(r) /\ u = Target(r) /\ row = Written(r)
            <6>1. pc[r] = "save" /\ SeenInv(r)
              BY <3>2, <5>2 DEF Save, WriterInv
            <6> QED
              BY <3>2, <4>3, <5>2, <6>1, WrittenFrom
          <5>3. CASE DeleteRow(r) /\ u = Target(r) /\ row = [users[u] EXCEPT !.state = "deleted"]
            BY <3>2, <4>3, <5>3 DEF TypeInv, TablesTyped, UserRows
          <5>4. CASE users[u].state = "none"
            BY <4>3, <5>4 DEF Kept
          <5> QED
            BY <4>1, <5>1, <5>2, <5>3, <5>4
        <4> QED
          BY <4>2, <4>3
      <3> QED
        BY <3>3, <3>4
    <2>2. CASE Tick \/ Prune \/ Crash \/ UNCHANGED vars
      BY <2>2 DEF Tick, Prune, Crash, vars, tables
    <2> QED
      BY <2>1, <2>2 DEF Next
  <1> QED
    BY <1>1, RowInvHolds, PTL DEF Spec, SubjectKeepsAccount

-----------------------------------------------------------------------------
(* The role in a pair                                                      *)

\* The ending of the account's sessions is under way, or has failed.
Ending(u) == u \in unended \/ \E r \in Requests : pc[r] = "end" /\ Target(r) = u

\* The account has nothing less than the pair.
Covered(p) == Rank(p.role) <= Rank(users[p.user].role) /\ users[p.user].active

PairInv ==
    clean => \A p \in pairs :
        /\ users[p.user].state # "none"
        /\ Outlived(p.sid, p.user, p.at) \/ users[p.user].state = "deleted" \/ Covered(p) \/ Ending(p.user)

LEMMA RankTyped == \A role : Rank(role) \in 0 .. Rank("admin")
  BY DEF Rank

\* A denial lasts for as long as the pairs it is for.
LEMMA OutlivedStays ==
    ASSUME TypeInv, [Next]_vars, NEW s \in Ids, NEW u \in Users, NEW at \in Nat, Outlived(s, u, at)
    PROVE  Outlived(s, u, at)'
  <1>1. CASE UNCHANGED <<denied, deniedAll, now>>
    BY <1>1 DEF Outlived
  <1>2. ASSUME NEW r \in Requests, Serve(r) PROVE Outlived(s, u, at)'
    <2>1. CASE SignOut(r)
      <3>1. PICK p \in Pairs : p = call[r].pair
        BY <2>1 DEF SignOut, TypeInv, StepsTyped, At, Sound
      <3>2. UNCHANGED <<deniedAll, now>> /\ (UNCHANGED denied \/ denied' = [denied EXCEPT ![p.sid] =
                                               IF @ = 0 THEN SignOutUntil(p) ELSE @])
        BY <2>1, <3>1 DEF SignOut, Quiet
      <3>3. denied'[s] = denied[s] \/ denied[s] = 0
        BY <3>2 DEF TypeInv, TablesTyped
      <3> QED
        BY <3>2, <3>3, TimesTyped DEF Outlived
    <2>2. CASE EndSessions(r)
      <3>1. PICK v \in Users : v = Target(r)
        BY <2>2, TargetTyped DEF EndSessions
      <3>2. UNCHANGED <<denied, now>> /\ (UNCHANGED deniedAll \/
               (deniedAll[v] = 0 /\ deniedAll' = [deniedAll EXCEPT ![v] = AllUntil]))
        BY <2>2, <3>1 DEF EndSessions, Quiet
      <3>3. deniedAll'[u] = deniedAll[u] \/ deniedAll[u] = 0
        BY <3>2 DEF TypeInv, TablesTyped
      <3> QED
        BY <3>2, <3>3, TimesTyped DEF Outlived
    <2>3. CASE ~SignOut(r) /\ ~EndSessions(r)
      <3>1. UNCHANGED <<denied, deniedAll, now>>
        BY <1>2, <2>3 DEF Serve, Begin, Authenticate, TokenRead, TokenUser, Login, VerifyTwoFactor, Spend,
             RefreshCheck, RefreshRead, Authorize, Redeem, BySubject, ByEmail, Read, Count, Save, DeleteRow,
             Insert, TokenGet, TokenRevoke, ProviderSave, Fail, tables, Quiet
      <3> QED
        BY <1>1, <3>1
    <2> QED
      BY <2>1, <2>2, <2>3
  <1>3. CASE Tick
    <2>1. UNCHANGED <<denied, deniedAll>> /\ now' = now + 1
      BY <1>3 DEF Tick, tables
    <2> QED
      BY <2>1, TimesTyped DEF Outlived
  <1>4. CASE Prune
    <2>1. /\ UNCHANGED now
          /\ denied'[s] = IF denied[s] < now THEN 0 ELSE denied[s]
          /\ deniedAll'[u] = IF deniedAll[u] < now THEN 0 ELSE deniedAll[u]
      BY <1>4 DEF Prune, Quiet
    <2> QED
      BY <2>1, TimesTyped DEF Outlived
  <1> QED
    BY <1>1, <1>2, <1>3, <1>4 DEF Next, Crash, vars, tables

\* The sessions are ended before the request that has to is over, or it is
\* known that they are not.
LEMMA EndingStays ==
    ASSUME TypeInv, SessionInv, [Next]_vars, NEW u \in Users, Ending(u)
    PROVE  Ending(u)' \/ \A p \in pairs : p.user = u => Outlived(p.sid, p.user, p.at)'
  <1>1. CASE u \in unended
    <2>1. ASSUME NEW r \in Requests, Serve(r) PROVE unended \subseteq unended'
      <3>1. CASE EndSessions(r) \/ Fail(r)
        BY <3>1 DEF EndSessions, Fail
      <3>2. CASE ~EndSessions(r) /\ ~Fail(r)
        BY <2>1, <3>2 DEF Serve, Begin, Authenticate, TokenRead, TokenUser, Login, VerifyTwoFactor, Spend,
             RefreshCheck, RefreshRead, SignOut, Authorize, Redeem, BySubject, ByEmail, Read, Count, Save,
             DeleteRow, Insert, TokenGet, TokenRevoke, ProviderSave, history
      <3> QED
        BY <3>1, <3>2
    <2>2. unended \subseteq unended'
      BY <2>1 DEF Next, Tick, Prune, Crash, vars, history
    <2> QED
      BY <1>1, <2>2 DEF Ending
  <1>2. ASSUME NEW q \in Requests, pc[q] = "end", Target(q) = u
        PROVE  Ending(u)' \/ \A p \in pairs : p.user = u => Outlived(p.sid, p.user, p.at)'
    <2>1. CASE EndSessions(q)
      <3>1. CASE deniedAll[u] = 0
        <4>1. deniedAll'[u] = now + 2 * RefreshTTL
          BY <1>2, <2>1, <3>1 DEF EndSessions, AllUntil, TypeInv, TablesTyped
        <4>2. \A p \in pairs : p.at <= now /\ p.at \in Nat
          BY TimesTyped DEF SessionInv, OwnersInv
        <4> QED
          BY <4>1, <4>2, TimesTyped DEF Outlived
      <3>2. CASE deniedAll[u] # 0
        BY <1>2, <2>1, <3>2 DEF EndSessions, Ending
      <3> QED
        BY <3>1, <3>2
    <2>2. CASE Fail(q)
      <3>1. u \in Cut({q})
        BY <1>2 DEF Cut
      <3> QED
        BY <2>2, <3>1 DEF Fail, Ending
    <2>3. CASE Crash
      <3>1. u \in Cut(Requests)
        BY <1>2 DEF Cut
      <3> QED
        BY <2>3, <3>1 DEF Crash, Ending
    <2>4. CASE Tick \/ Prune \/ UNCHANGED vars
      <3>1. UNCHANGED <<pc, call, who>>
        BY <2>4 DEF Tick, Prune, vars, memory, Quiet
      <3> QED
        BY <1>2, <3>1 DEF Ending, Target
    <2>5. ASSUME NEW r \in Requests \ {q}, Serve(r) PROVE Ending(u)'
      BY <1>2, <2>5, ServeFrame DEF Ending
    <2>6. Serve(q) => EndSessions(q) \/ Fail(q)
      BY <1>2 DEF Serve, Begin, Authenticate, TokenRead, TokenUser, Login, VerifyTwoFactor, Spend, RefreshCheck,
             RefreshRead, SignOut, Authorize, Redeem, BySubject, ByEmail, Read, Count, Save, DeleteRow, Insert,
             TokenGet, TokenRevoke, ProviderSave
    <2> QED
      BY <2>1, <2>2, <2>3, <2>4, <2>5, <2>6 DEF Next
  <1> QED
    BY <1>1, <1>2 DEF Ending

\* An account that is there stays there until it is deleted, and loses nothing
\* but through an edit that goes on to end its sessions.
LEMMA AccountStays ==
    ASSUME TypeInv, WriterInv, NEW r \in Requests, Serve(r), NEW v \in Users, users[v].state # "none"
    PROVE  /\ users'[v].state # "none"
           /\ users[v].state = "deleted" => users'[v].state = "deleted"
           /\ \/ Ending(v)'
              \/ Rank(users[v].role) <= Rank(users'[v].role) /\ (users[v].active => users'[v].active)
  <1>1. CASE UNCHANGED users
    BY <1>1, RankTyped
  <1>2. CASE ~UNCHANGED users
    <2>1. PICK u \in Users, row \in UserRows :
             /\ users' = [users EXCEPT ![u] = row]
             /\ \/ Spend(r) /\ u = Target(r) /\ row = seen[r]
                \/ Save(r) /\ u = Target(r) /\ row = Written(r)
                \/ DeleteRow(r) /\ u = Target(r) /\ row = [users[u] EXCEPT !.state = "deleted"]
                \/ /\ Insert(r) /\ users[u].state = "none"
                   /\ row.state = "kept" \/ (call[r].op = "OAuthCallback" /\ row = seen[r])
      BY <1>2, RowsWritten
    <2>2. users'[v] = IF v = u THEN row ELSE users[v]
      BY <2>1 DEF TypeInv, TablesTyped
    <2>3. CASE u # v
      BY <2>2, <2>3, RankTyped
    <2>4. CASE Spend(r) /\ u = Target(r) /\ row = seen[r] /\ u = v
      <3>1. SeenAt("spend", call[r], seen[r], users[u])
        BY <2>4 DEF Spend, WriterInv, SeenInv, RowSteps
      <3> QED
        BY <2>2, <2>4, <3>1, RankTyped DEF SeenAt, Copy
    <2>5. CASE Save(r) /\ u = Target(r) /\ row = Written(r) /\ u = v
      <3>1. pc[r] = "save" /\ SeenInv(r)
        BY <2>5 DEF Save, WriterInv
      <3>2. row.state = "kept" /\ users[u].state = "kept"
        BY <2>5, <3>1, WrittenFrom
      <3>3. CASE call[r].op # "UpdateUser"
        <4>1. row.role = users[u].role /\ row.active = users[u].active
          BY <2>5, <3>1, <3>3, WrittenFrom
        <4> QED
          BY <2>2, <2>5, <3>2, <4>1, RankTyped
      <3>4. CASE call[r].op = "UpdateUser" /\ EndsSessions(call[r].edit)
        <4>1. Goto(r, "end") /\ UNCHANGED <<call, who>>
          BY <1>2, <2>5, <3>4 DEF Save, Quiet, memory
        <4>2. pc'[r] = "end" /\ Target(r)' = v
          BY <2>5, <4>1 DEF Goto, TypeInv, StepsTyped, Target
        <4> QED
          BY <2>2, <2>5, <3>2, <4>2 DEF Ending
      <3>5. CASE call[r].op = "UpdateUser" /\ ~EndsSessions(call[r].edit)
        <4>1. /\ row.role = IF call[r].edit.role = None THEN users[u].role ELSE call[r].edit.role
              /\ row.active = IF call[r].edit.active = None THEN users[u].active ELSE call[r].edit.active
          BY <2>5, <3>1, <3>5, WrittenFrom
        <4>2. call[r].edit.active \in BOOLEAN \cup {None}
          BY <3>5, AccessRowsAssumption DEF TypeInv, StepsTyped, Sound, UserOps
        <4>3. row.role \in {users[u].role, "admin"} /\ (users[u].active => row.active)
          BY <3>5, <4>1, <4>2 DEF EndsSessions
        <4> QED
          BY <2>2, <2>5, <3>2, <4>3, RankTyped
      <3> QED
        BY <3>3, <3>4, <3>5
    <2>6. CASE DeleteRow(r) /\ u = Target(r) /\ row = [users[u] EXCEPT !.state = "deleted"] /\ u = v
      <3>1. row.state = "deleted" /\ row.role = users[u].role /\ row.active = users[u].active
        BY <2>6 DEF TypeInv, TablesTyped, UserRows
      <3> QED
        BY <2>2, <2>6, <3>1, RankTyped
    <2> QED
      BY <2>1, <2>3, <2>4, <2>5, <2>6
  <1> QED
    BY <1>1, <1>2

LEMMA PairInit == Init => PairInv
  <1> SUFFICES ASSUME Init, NEW p \in pairs PROVE users[p.user].state # "none" /\ Covered(p)
    BY DEF PairInv
  <1>1. PICK u \in SignedIn : p = [sid |-> u, user |-> u, role |-> FirstRows[u].role, at |-> 0]
    BY DEF Init
  <1>2. p.user = u /\ p.role = users[u].role /\ users[u].state = "kept" /\ users[u].active
    BY <1>1, AccessFirstAssumption DEF Init
  <1> QED
    BY <1>2, RankTyped DEF Covered

LEMMA PairNext == RowInv /\ SessionInv /\ PairInv /\ [Next]_vars => PairInv'
  <1> SUFFICES ASSUME RowInv, SessionInv, PairInv, [Next]_vars, clean', NEW p \in pairs'
               PROVE  /\ users'[p.user].state # "none"
                      /\ \/ Outlived(p.sid, p.user, p.at)' \/ users'[p.user].state = "deleted"
                         \/ Covered(p)' \/ Ending(p.user)'
    BY DEF PairInv, Outlived, Covered, Ending
  <1>t. TypeInv
    BY DEF RowInv
  <1>1. ASSUME p \in pairs, clean,
               /\ users'[p.user].state # "none"
               /\ users[p.user].state = "deleted" => users'[p.user].state = "deleted"
               /\ \/ Ending(p.user)'
                  \/ /\ Rank(users[p.user].role) <= Rank(users'[p.user].role)
                     /\ users[p.user].active => users'[p.user].active
        PROVE  \/ Outlived(p.sid, p.user, p.at)' \/ users'[p.user].state = "deleted"
               \/ Covered(p)' \/ Ending(p.user)'
    <2>1. PICK s \in Ids, u \in Users, at \in Nat : s = p.sid /\ u = p.user /\ at = p.at
      BY <1>1, <1>t, TimesTyped
    <2>2. Outlived(s, u, at) \/ users[u].state = "deleted" \/ Covered(p) \/ Ending(u)
      BY <1>1, <2>1 DEF PairInv
    <2>3. CASE Outlived(s, u, at)
      BY <1>t, <2>1, <2>3, OutlivedStays
    <2>4. CASE Ending(u)
      BY <1>1, <1>t, <2>1, <2>4, EndingStays
    <2>5. CASE Covered(p)
      BY <1>1, <2>1, <2>5, RankTyped DEF Covered
    <2> QED
      BY <1>1, <2>1, <2>2, <2>3, <2>4, <2>5
  <1>2. ASSUME NEW r \in Requests, Serve(r), p \in pairs
        PROVE  /\ clean /\ users'[p.user].state # "none"
               /\ users[p.user].state = "deleted" => users'[p.user].state = "deleted"
               /\ \/ Ending(p.user)'
                  \/ /\ Rank(users[p.user].role) <= Rank(users'[p.user].role)
                     /\ users[p.user].active => users'[p.user].active
    <2>1. clean /\ WriterInv
      BY <1>2, CleanBefore
    <2>2. PICK u \in Users : u = p.user
      BY <1>2, <1>t, TimesTyped
    <2>3. users[u].state # "none"
      BY <1>2, <2>1, <2>2 DEF PairInv
    <2> QED
      BY <1>2, <1>t, <2>1, <2>2, <2>3, AccountStays
  <1>3. ASSUME NEW r \in Requests, Serve(r), p \notin pairs
        PROVE  users'[p.user].state # "none" /\ Covered(p)'
    <2>1. WriterInv /\ NewRowInv
      BY <1>3, CleanBefore DEF RowInv
    <2>2. PICK made \in Pairs : Signed(made, call[r].code)
      BY <1>3, <1>t, <2>1, PairsSigned
    <2>3. p = made
      BY <1>3, <2>2 DEF Signed
    <2> QED
      BY <2>2, <2>3, RankTyped DEF Signed, Covered
  <1>4. CASE Tick \/ Prune \/ Crash \/ UNCHANGED vars
    <2>1. p \in pairs /\ UNCHANGED <<users, clean>>
      BY <1>4 DEF Tick, Prune, Crash, vars, tables, clients
    <2>2. users[p.user].state # "none"
      BY <2>1 DEF PairInv
    <2> QED
      BY <1>1, <2>1, <2>2, RankTyped
  <1> QED
    BY <1>1, <1>2, <1>3, <1>4 DEF Next

\* As long as no two requests had a row to write back at once, a session of an
\* account that is still there acts with no more than the account has now, but
\* for accounts whose sessions are about to be ended or could not be: UpdateUser
\* of service/auth.go ends the sessions of an account that it demotes or
\* suspends, in all of their pairs, and Refresh signs the role the account has
\* then.  Deleted accounts are excepted: nothing ends their sessions.
THEOREM RolesFollow == Spec => []RoleFollowsAccount
  <1>1. Spec => []PairInv
    BY RowInvHolds, SessionHolds, PairInit, PairNext, PTL DEF Spec
  <1>2. RowInv /\ PairInv => RoleFollowsAccount
    <2> SUFFICES ASSUME RowInv, PairInv, clean, NEW p \in pairs, LiveRefresh(p), ~IsRevoked(p.sid, p.user), Kept(p.user)
                 PROVE  \/ Rank(p.role) <= Rank(users[p.user].role) /\ users[p.user].active
                        \/ p.user \in unended \/ \E r \in Requests : pc[r] = "end" /\ Target(r) = p.user
      BY DEF RoleFollowsAccount
    <2>1. ~Outlived(p.sid, p.user, p.at)
      BY TimesTyped DEF RowInv, Outlived, LiveRefresh, IsRevoked
    <2> QED
      BY <2>1 DEF PairInv, Covered, Ending, Kept
  <1> QED
    BY <1>1, <1>2, RowInvHolds, PTL

=============================================================================
