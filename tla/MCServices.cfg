SPECIFICATION ServicesSpec
CONSTANTS
    DiffInputs <- MCDiffInputs
    RevisionInputs <- MCRevisionInputs
    PatchInputs <- MCPatchInputs
    Expressions <- MCExpressions
    TypedExpressions <- MCTypedExpressions
    ContentPairs <- MCContentPairs
    ReleaseInputs <- MCReleaseInputs
    ReportInputs <- MCReportInputs
    MetricInputs <- MCMetricInputs
    ProposalInputs <- MCProposalInputs
    MaxNumber = 8
    SettingsClients = {c1, c2}
INVARIANTS ReadersAreExact ContentIsValidated GatesAreSound SettingsAreKept RecoveryIsOrdered SharedRequestsAgree EvaluationsAreExact
CHECK_DEADLOCK FALSE
