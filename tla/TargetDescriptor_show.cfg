\* Ad hoc names that differ only in case or name a plugin; both loader orders.
CONSTANTS
    AdhocNames <- MCAdhocNames
    Caseless <- MCCaseless
    AssistantParams <- MCAssistantParams
    PluginNames = {"rig"}
    MaxAdhoc = 2
SPECIFICATION Spec
INVARIANT ShowFindsTargets
