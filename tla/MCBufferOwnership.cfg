CONSTANTS
    h1 = h1
    h2 = h2
    h3 = h3
    h4 = h4
    o1 = o1
    o2 = o2
    o3 = o3
    NoBuf = NoBuf
    Holders <- MCHolders
    Objs <- MCObjs
SYMMETRY MCSymmetry
SPECIFICATION Spec
INVARIANT NoAlias
INVARIANT NoUseAfterFree
INVARIANT NoLeakExceptRaw
