\* Every ls-remote output of up to four lines over two CLs, patchsets 0..2
\* and one non-ref line.
CONSTANTS
    CLs = {c1, c2}
    MaxPs = 2
    MaxLen = 4
    Junk = Junk
SPECIFICATION Spec
\* get_all_cls returns after its last line.
CHECK_DEADLOCK FALSE
INVARIANT GetAllClsIsMax
