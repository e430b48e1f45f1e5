\* Two nodes, three blocks, the TBD addon, the node may be stopped.
SPECIFICATION Spec
CONSTANTS
    Node = {n0, n1}
    View = n0
    Down = {}
    Request = {r1, r2, r3}
    Genesis = genesis
    Nil = nil
    TBD = TRUE
    MayStop = TRUE
    n0 = n0
    n1 = n1
    r1 = r1
    r2 = r2
    r3 = r3
    genesis = genesis
    nil = nil
INVARIANTS
    IndInv
    RoundsInOrder
    RoundEndsWithDecision
    CommitAfterStateUpdate
    BlocksBuildOnChain
SYMMETRY Symmetry
CHECK_DEADLOCK FALSE
