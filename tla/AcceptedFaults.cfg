\* What the contract demands of a data set and validate does not compare.
SPECIFICATION Spec
CONSTANTS
    e1 = e1
    e2 = e2
    Exporters <- MCExporters
    FileOrder <- MCFileOrder
    Stages <- MCStages
    ImplementationStage = "implementation_consistency"
    Categories <- MCCategories
    IntRange = 16
    SafeIds <- MCSafeIds
    Mentioning <- MCMentioning
    Datasets <- OverlookedDatasets
    TemplatesFor <- NoTemplateFor
    LateWriteErrors = TRUE
    MaxFaults = 1
INVARIANT PassedIsSound
