------------------------------- MODULE Routes -------------------------------
(***************************************************************************)
(* Who may call what: the route tables of server/routes.go, the guards of  *)
(* server/middleware/middleware.go, and the scopes of service/scope.go.    *)
(*                                                                         *)
(* A route is named after its handler.  The tables keep of each route what *)
(* decides whether a caller gets through: the group it belongs to, the     *)
(* roles and the scope its guard asks for, and whether its method changes  *)
(* anything.                                                               *)
(***************************************************************************)
EXTENDS FiniteSets

Roles   == {"admin", "operator", "viewer"}
Anyone  == Roles                          \* no role guard: every account may
Writers == {"admin", "operator"}          \* RequireWrite
Admins  == {"admin"}                      \* RequireAdmin

\* scopeCatalog: a scope is a resource and an action, with two wildcards.
Resources == {"authorities", "certificates", "deployments", "notifications",
              "users", "tokens", "audit", "settings"}
ScopeAll  == <<"*", "*">>
Scopes    == {ScopeAll} \cup (Resources \X {"read", "write", "*"})
NoScope   == <<"none", "none">>           \* a route no scope guards

-----------------------------------------------------------------------------
(* The tables                                                              *)

\* Guard: the role check and the scope check of a route of the api group.
Guard(ops, roles, resource, action, changes) ==
    {[op |-> op, roles |-> roles, scope |-> <<resource, action>>, changes |-> changes] : op \in ops}

\* A route of the api group without a guard of its own, beyond signing in.
Unguarded(ops, changes) ==
    {[op |-> op, roles |-> Anyone, scope |-> NoScope, changes |-> changes] : op \in ops}

systemRoutes ==
    Unguarded({"About", "Meta"}, FALSE)
      \cup Guard({"Dashboard"}, Anyone, "certificates", "read", FALSE)

sessionRoutes   == Unguarded({"Me"}, FALSE)
twoFactorRoutes ==
    Unguarded({"TwoFactorStatus"}, FALSE)
      \cup Unguarded({"SetupTwoFactor", "EnableTwoFactor", "DisableTwoFactor",
                      "RegenerateRecoveryCodes"}, TRUE)

oauthRoutes ==
    Guard({"GetOAuthProvider"}, Admins, "settings", "read", FALSE)
      \cup Guard({"SaveOAuthProvider", "DeleteOAuthProvider"}, Admins, "settings", "write", TRUE)

authorityRoutes ==
    Guard({"ListAuthorities", "GetAuthority", "AuthorityCertificates", "TrustGuide"},
          Anyone, "authorities", "read", FALSE)
      \cup Guard({"CreateAuthority", "ImportAuthority", "UpdateAuthority", "RegenerateCRL"},
                 Writers, "authorities", "write", TRUE)
      \cup Guard({"DeleteAuthority", "RenewAuthority"}, Admins, "authorities", "write", TRUE)

\* Inspect is a POST that only parses what it is sent.
certificateRoutes ==
    Guard({"ListCertificates", "GetCertificate", "DownloadCertificate", "CertificateChain",
           "CertificateHistory", "Inspect"}, Anyone, "certificates", "read", FALSE)
      \cup Guard({"IssueCertificate", "SignCSR", "RenewCertificate", "BulkRenew", "BulkRevoke",
                  "UpdateCertificate", "DeleteCertificate", "RevokeCertificate"},
                 Writers, "certificates", "write", TRUE)

userRoutes ==
    Guard({"ListUsers", "GetUser"}, Admins, "users", "read", FALSE)
      \cup Guard({"CreateUser", "UpdateUser", "DeleteUser", "ResetUserTwoFactor"},
                 Admins, "users", "write", TRUE)

\* Read(ScopeTokensWrite): everyone manages tokens of their own.
tokenRoutes ==
    Guard({"ListTokens"}, Anyone, "tokens", "read", FALSE)
      \cup Guard({"CreateToken", "RevokeToken"}, Anyone, "tokens", "write", TRUE)

notificationRoutes ==
    Guard({"ListNotifications"}, Admins, "notifications", "read", FALSE)
      \cup Guard({"CreateNotification", "UpdateNotification", "DeleteNotification",
                  "TestNotification"}, Admins, "notifications", "write", TRUE)

deploymentRoutes ==
    Guard({"ListDeployments"}, Anyone, "deployments", "read", FALSE)
      \cup Guard({"CreateDeployment", "UpdateDeployment", "DeleteDeployment", "TestDeployment"},
                 Admins, "deployments", "write", TRUE)

externalAccountRoutes ==
    Guard({"ListExternalAccounts", "ListACMEAccounts"}, Admins, "settings", "read", FALSE)
      \cup Guard({"CreateExternalAccount", "DeleteExternalAccount"}, Admins, "settings", "write", TRUE)

operationsRoutes ==
    Guard({"ListAuditLogs"}, Admins, "audit", "read", FALSE)
      \cup Guard({"ListJobs"}, Admins, "settings", "read", FALSE)
      \cup Guard({"GetSettings"}, Anyone, "settings", "read", FALSE)
      \cup Guard({"UpdateSettings"}, Admins, "settings", "write", TRUE)

\* What is served without the Auth middleware: health and trust distribution,
\* the sign-in surface, and ACME, which authenticates its signed bodies itself.
openRoutes ==
    {"Health", "PublicRoot", "PublicChain", "PublicCRL", "PublicOCSP", "PublicCRLDER"}
signInRoutes == {"Login", "VerifyTwoFactor", "Refresh", "Logout",
                 "OAuthStatus", "OAuthAuthorize", "OAuthCallback"}
acmeRoutes ==
    {"ACMEDirectory", "ACMENewNonce", "ACMENewAccount", "ACMEAccount", "ACMEOrderList",
     "ACMENewOrder", "ACMEOrder", "ACMEFinalize", "ACMEAuthorization", "ACMEChallenge",
     "ACMECertificate", "ACMERevokeCert", "ACMEKeyChange"}

\* The api group: everything behind the Auth middleware.
Routes == systemRoutes \cup sessionRoutes \cup twoFactorRoutes \cup oauthRoutes
            \cup authorityRoutes \cup certificateRoutes \cup userRoutes \cup tokenRoutes
            \cup notificationRoutes \cup deploymentRoutes \cup externalAccountRoutes
            \cup operationsRoutes

RouteOf(op) == CHOOSE route \in Routes : route.op = op

-----------------------------------------------------------------------------
(* The guards                                                              *)

HasScope_AnyAction(scopes, required) ==
    scopes = {} \/ ScopeAll \in scopes \/ \E s \in scopes : s[1] = required[1]
\* A session carries no scopes; a token without any is not restricted either.
\* "Write implies read."
HasScope(scopes, required) ==
    \/ scopes = {}
    \/ ScopeAll \in scopes \/ required \in scopes \/ <<required[1], "*">> \in scopes
    \/ required[2] = "read" /\ <<required[1], "write">> \in scopes


\* RequireRole, then RequireScope.
Permits(route, role, scopes) ==
    /\ role \in route.roles
    /\ route.scope = NoScope \/ HasScope(scopes, route.scope)

\* The scopes that only let their bearer look.
ReadScopes == Resources \X {"read"}
=============================================================================
