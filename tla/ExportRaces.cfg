\* Two exports to one directory, over data sets with one or two faults, and
\* commands in turns on the files of a published one.
SPECIFICATION PublishedSpec
CONSTANTS
    e1 = e1
    e2 = e2
    Exporters <- MCExporters
    FileOrder <- MCFileOrder
    Stages <- MCStages
    ImplementationStage = "implementation_consistency"
    Categories <- MCCategories
    IntRange = 16
    SafeIds <- MCSafeIds
    Mentioning <- MCMentioning
    Datasets <- MCDatasets
    TemplatesFor <- MCTemplatesFor
    LateWriteErrors = TRUE
    MaxFaults = 1
    Commands = {c1, c2}
    Bytes = {Empty, b1}
    Empty = Empty
INVARIANT TypeOK
INVARIANT PublishedRunIsWhole
INVARIANT NoGoldInPrompt
INVARIANT ValidatedExport
INVARIANT ExportIsTruthful
INVARIANT SidecarIsTruthful
PROPERTY VerdictMatchesContract
PROPERTY ImplementsAtomicPublish
PROPERTY HeldCallSettles
