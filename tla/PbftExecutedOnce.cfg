\* Refuted: isReply lets a request be executed once.
SPECIFICATION Spec
CONSTANTS
    Node = {n0, n1, n2}
    View = n0
    Down = {}
    Request = {r1}
    Genesis = genesis
    Nil = nil
    TBD = FALSE
    MayStop = FALSE
    n0 = n0
    n1 = n1
    n2 = n2
    r1 = r1
    genesis = genesis
    nil = nil
SYMMETRY Symmetry
INVARIANT ExecutedOnce
CHECK_DEADLOCK FALSE
