\* Two overlapping recreate_vms requests over any earlier pool, with a compute API that may
\* answer errors.
CONSTANTS
    Requests = {r1, r2}
    MaxVms = 2
    MaxTime = 2
    Reliable = FALSE
SPECIFICATION Spec
\* recreate_vms returns (or raises) and nothing else happens: the run ends.
CHECK_DEADLOCK FALSE
INVARIANTS TypeOK OldPoolGoneOnDone
