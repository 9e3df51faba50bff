\* Expected violation of AllOutputLogged (see PROJECT.json findings).
CONSTANTS
    Sec = 2
    UploadSec = 1
    TimeoutSec = 2
    PipeCap = 1
    MaxLines = 3
    MaxPatchTicks = 2
    ExitCodes = {0, 1}
SPECIFICATION Spec
\* run_job returns: the model covers one call, which really ends.
CHECK_DEADLOCK FALSE
INVARIANT AllOutputLogged
