--------------------------- MODULE MCAuthorities ---------------------------
(* Instances of Authorities for TLC. *)
EXTENDS Authorities, TLC

CONSTANTS root, sub, leaf, inside, outside, uri, foreign

Limited(serial, signer, until, permits) ==
    [serial |-> serial, signer |-> signer, from |-> 0, until |-> until, permits |-> permits, leafOnly |-> FALSE]

\* A root, an intermediate that is held to its own names, and a certificate
\* with a key below it.
MCAuthorityRows ==
    root :> AuthorityRow("root", None, Limited(root, None, 3, Names))
    @@ sub :> AuthorityRow("intermediate", root, Limited(sub, root, 2, {inside}))

MCCertificateRows ==
    leaf :> [kept |-> TRUE, authority |-> sub, signer |-> sub, from |-> 0, until |-> 1,
             names |-> {inside}, checked |-> TRUE, key |-> leaf, downloads |-> 0]

\* Somebody else's root, which is called like the root here.
MCForeign == foreign :> [issuer |-> root, selfSigned |-> TRUE, until |-> 2,
                         permits |-> {inside}, leafOnly |-> TRUE]

MCLimits   == {Names, {inside}}
MCOneLimit == {{inside}}
MCNameSets == {{outside}, {inside, uri}}

TreeOps == {"CreateAuthority", "ImportAuthority", "UpdateAuthority", "DeleteAuthority",
            "RenewAuthority", "Issue", "SignCSR", "Renew", "UpdateCertificate", "DeleteCertificate",
            "DownloadCertificate"}
RenewalOps == {"CreateAuthority", "RenewAuthority", "Issue"}

Symmetry == Permutations(Requests)
=============================================================================
