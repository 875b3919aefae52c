\* Every default description, up to two user parameters, extras, connect.
CONSTANTS
    AssistantParams <- MCAssistantParams
    UserParams <- MCUserParams
    ExtraParams <- MCExtraParams
    MaxSupplied = 2
    Pending = Pending
SPECIFICATION Spec
\* A single call: nothing happens after it returns.
CHECK_DEADLOCK FALSE
INVARIANTS DescriptionsMatchTables InstantiateHonoursParams
