\* One directory under src/ and include/, two headers, one .cc and one other
\* file in each, #include lines naming headers by their "sub/x.h" path.
CONSTANTS
    Subs = {"a"}
    Headers = {h1, h2}
    Sources = {c1}
    Others = {o1}
    AllowBare = FALSE
SPECIFICATION Spec
\* The script prints and exits, or exits with status 1.
CHECK_DEADLOCK FALSE
INVARIANT AffectedIsClosure
