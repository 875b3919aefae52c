\* An ad hoc description named like a default one.
CONSTANTS
    AdhocNames <- MCClashNames
    Caseless <- MCCaseless
    AssistantParams <- MCAssistantParams
    PluginNames = {"rig"}
    MaxAdhoc = 2
SPECIFICATION Spec
INVARIANT ShowFindsTargets
