\* Two requests at a time, one CL with up to two patchsets, two
\* configurations.
CONSTANTS
    a1 = a1  a2 = a2  c1 = c1  f1 = f1  f2 = f2
    Callers = {a1, a2}
    CLs = {c1}
    Configs = {f1, f2}
    MaxPs = 2
SYMMETRY MCSymmetry
SPECIFICATION Spec
INVARIANTS MarkedHasTaskNames
