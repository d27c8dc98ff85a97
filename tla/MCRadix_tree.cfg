CONSTANTS
    ka = ka
    kb = kb
    p1 = p1
    p2 = p2
    p3 = p3
    p4 = p4
    Keys = {ka, kb}
    Ids = {p1, p2, p3, p4}
    MaxDepth = 3
SPECIFICATION Spec
SYMMETRY Symmetry
PROPERTIES ImplementsPrefixIndex
INVARIANTS MatchIsLongestPrefix TreeIsLinked EvictionTakesOnePage
