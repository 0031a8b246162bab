\* Commands on the files of one trace, racing or one after the other.
CONSTANTS
    Commands = {c1, c2, c3, c4}
    MaxRacing = 3
    Traces = {t1}
    Bytes = {Empty, b1}
    Empty = Empty
    Absent = Absent
    Torn = Torn
    ParseStatusOf <- MCParseStatusOf
    LateWriteErrors = FALSE
SPECIFICATION BoundedSpec
INVARIANT InvocationIsRecorded
INVARIANT WrapperNamesRaw
INVARIANT EndedCallIsSettled
INVARIANT CompletedRunIsWhole
PROPERTY SidecarIsWrittenTwice
PROPERTY RawIsImmutable
PROPERTY ImplementsOneShotCall
SYMMETRY Symmetry
\* The operator may stop giving commands.
CHECK_DEADLOCK FALSE
