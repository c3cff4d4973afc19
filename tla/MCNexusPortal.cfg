CONSTANTS
    Case = {c1, c2}
    Request = {q1}
    None = None
    Actor = {a1, a2}
    Thread = {t1, t2}
    MaxEntries = 3
SPECIFICATION Spec
SYMMETRY Symmetry
INVARIANTS
    ChainForksOnlyInOverlap
    StatusIsLastDecision
    RespondedOnce
    UnmaskingIsAudited
