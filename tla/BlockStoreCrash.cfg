\* Two goroutines commit blocks of the same node; two crashes.
SPECIFICATION FairSpec
CONSTANTS
    Writer = {w1, w2}
    Main = main
    Hash = {h1, h2, h3}
    Root = {empty, s1}
    EmptyRoot = empty
    Nil = nil
    TxVerifyTime = FALSE
    MaxCrash = 2
    main = main
    w1 = w1
    w2 = w2
    h1 = h1
    h2 = h2
    h3 = h3
    empty = empty
    s1 = s1
    nil = nil
INVARIANTS
    Recoverable
    StoreInv
PROPERTY
    BootCompletes
\* A node whose NewBlockChain panics stops; BootCompletes says it never does.
CHECK_DEADLOCK FALSE
