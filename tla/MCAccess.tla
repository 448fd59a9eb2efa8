------------------------------ MODULE MCAccess ------------------------------
(* Instances of Access for TLC. *)
EXTENDS Access, TLC

CONSTANTS u1, u2, u3, s1, s2, i1, i2

\* Of the routes whose handlers are not modelled, one for each way they are
\* guarded.
Probes == {(CHOOSE route \in Routes :
               route.op \notin ModelledOps /\ [route EXCEPT !.op = ""] = guard).op :
             guard \in {[route EXCEPT !.op = ""] : route \in {q \in Routes : q.op \notin ModelledOps}}}

Row(email, role) ==
    [state |-> "kept", email |-> email, role |-> role, active |-> TRUE, password |-> TRUE,
     factor |-> "off", secret |-> None, step |-> 0, codes |-> {},
     provider |-> None, subject |-> None]
Absent(email) == [Row(email, "viewer") EXCEPT !.state = "none", !.active = FALSE, !.password = FALSE]

\* An administrator with a second factor, another with an enrolment that is
\* pending, and a person the provider knows.
MCRows == u1 :> [Row(u1, "admin") EXCEPT !.factor = "on", !.secret = u1, !.codes = Recovery(u1),
                                        !.provider = i1, !.subject = s1]
          @@ u2 :> [Row(u2, "admin") EXCEPT !.factor = "pending", !.secret = u2]
          @@ u3 :> Absent(u3)

MCProvider  == [name |-> i1, kept |-> TRUE, enabled |-> TRUE, signup |-> TRUE, unverified |-> FALSE,
                domain |-> {}, role |-> "operator"]
\* It may be switched off, or replaced by another one, for some of the accounts.
MCProviders == {[MCProvider EXCEPT !.enabled = FALSE],
                [MCProvider EXCEPT !.name = i2, !.domain = {u1, u3}]}

NoEdit  == [role |-> None, active |-> None, password |-> FALSE]
MCEdits == {[NoEdit EXCEPT !.role = "viewer"], [NoEdit EXCEPT !.role = "root"],
            [NoEdit EXCEPT !.active = FALSE], [NoEdit EXCEPT !.password = TRUE]}

MCScopes     == {<<"certificates", "read">>, <<"users", "read">>}
MCScopeLists == {{}, {<<"tokens", "write">>}}

MCOps  == (signInRoutes \ {"OAuthStatus"}) \cup ModelledOps \cup Probes
FewOps == {"Login", "UpdateUser"}

Symmetry == Permutations(Requests)
=============================================================================
