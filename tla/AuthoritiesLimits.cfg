SPECIFICATION Spec
CONSTANTS
    root = root
    sub = sub
    leaf = leaf
    inside = inside
    outside = outside
    uri = uri
    foreign = foreign
    Requests = {r1, r2}
    FirstAuthorities <- MCAuthorityRows
    FirstCertificates <- MCCertificateRows
    Foreign <- MCForeign
    Names = {inside, outside, uri}
    Unchecked = {uri}
    NameSets <- MCNameSets
    Limits <- MCLimits
    Lives = {1, 3}
    Policy = "once"
    Ops <- RenewalOps
    MaxNow = 2
    None = None
SYMMETRY Symmetry
CHECK_DEADLOCK FALSE
INVARIANT MirrorsCertificate
