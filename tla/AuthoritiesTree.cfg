SPECIFICATION Spec
CONSTANTS
    root = root
    sub = sub
    leaf = leaf
    inside = inside
    outside = outside
    uri = uri
    foreign = foreign
    Requests = {r1, r2, r3}
    FirstAuthorities <- MCAuthorityRows
    FirstCertificates <- MCCertificateRows
    Foreign <- MCForeign
    Names = {inside, outside, uri}
    Unchecked = {uri}
    NameSets <- MCNameSets
    Limits <- MCOneLimit
    Lives = {1}
    Policy = "once"
    Ops <- TreeOps
    MaxNow = 1
    None = None
SYMMETRY Symmetry
CHECK_DEADLOCK FALSE
INVARIANTS TypeOK SignedWithin TwiceWereRaced
PROPERTY ImplementsRegistry
