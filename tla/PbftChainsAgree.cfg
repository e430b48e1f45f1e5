\* Refuted: the nodes build the same chain.
SPECIFICATION Spec
CONSTANTS
    Node = {n0, n1}
    View = n0
    Down = {}
    Request = {r1, r2}
    Genesis = genesis
    Nil = nil
    TBD = TRUE
    MayStop = FALSE
    n0 = n0
    n1 = n1
    r1 = r1
    r2 = r2
    genesis = genesis
    nil = nil
INVARIANT ChainsAgree
CHECK_DEADLOCK FALSE
