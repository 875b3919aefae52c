\* juno given a target default: it must apply to juno descriptions only.
CONSTANTS
    AssistantParams <- MCAssistantParams
    UserParams <- MCUserParams
    ExtraParams <- MCExtraParams
    MaxSupplied = 0
    Pending = Pending
    PlatformTargetDefaults <- MCJunoTargetDefault
SPECIFICATION Spec
\* A single call: nothing happens after it returns.
CHECK_DEADLOCK FALSE
INVARIANT DescriptionsMatchTables
