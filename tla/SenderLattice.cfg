SPECIFICATION Spec
CONSTANTS
    Ids = {i1, i2, i3}
    Foreign = {f1}
    NoIrob = NoIrob
SYMMETRY Symmetry
INVARIANTS
    TypeOK
    AnonymousBarrier
    MinDominatorSet
    NamedDepsNotDropped
    EdgesAgree
    Acyclic
CHECK_DEADLOCK FALSE
