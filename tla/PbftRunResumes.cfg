\* Refuted: the Run loop is always woken.
SPECIFICATION FairSpec
CONSTANTS
    Node = {n0, n1}
    View = n0
    Down = {}
    Request = {r1}
    Genesis = genesis
    Nil = nil
    TBD = FALSE
    MayStop = FALSE
    n0 = n0
    n1 = n1
    r1 = r1
    genesis = genesis
    nil = nil
PROPERTY RunResumes
CHECK_DEADLOCK FALSE
