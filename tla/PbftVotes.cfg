\* Four nodes, one of them silent (f = 1), one request, the simple addon.
SPECIFICATION FairSpec
CONSTANTS
    Node = {n0, n1, n2, n3}
    View = n0
    Down = {n3}
    Request = {r1}
    Genesis = genesis
    Nil = nil
    TBD = FALSE
    MayStop = FALSE
    n0 = n0
    n1 = n1
    n2 = n2
    n3 = n3
    r1 = r1
    genesis = genesis
    nil = nil
INVARIANTS
    TypeOK
    PrepareCertificate
    DecisionCertificate
    IndInv
PROPERTIES
    Refines
    VotesNeverLost
    ViewDecides
CHECK_DEADLOCK FALSE
