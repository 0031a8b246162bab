CONSTANTS
    Commands = {c1, c2}
    Traces = {t1}
    Bytes = {Empty, b1}
    Empty = Empty
    Absent = Absent
    Torn = Torn
    ParseStatusOf <- MCParseStatusOf
    MaxRacing = 2
    LateWriteErrors = FALSE
SPECIFICATION Spec
INVARIANT NotAttemptedMeansNotInvoked
SYMMETRY Symmetry

CHECK_DEADLOCK FALSE
