\* Expected violation of EveryMarkedPatchsetEnqueued (see PROJECT.json findings).
CONSTANTS
    a1 = a1  a2 = a2  c1 = c1  f1 = f1  f2 = f2
    Callers = {a1, a2}
    CLs = {c1}
    Configs = {f1, f2}
    MaxPs = 2
SYMMETRY MCSymmetry
SPECIFICATION Spec
INVARIANT EveryMarkedPatchsetEnqueued
