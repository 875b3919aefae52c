\* One match call on an APK that may be rewritten once while it runs.
CONSTANTS
    None = None
    Pending = Pending
    Pkg = Pkg
    Other = Other
    UiPkg = UiPkg
    Arm = Arm
    UiautoPackages <- UiautoSet
SPECIFICATION Spec
\* The call really ends after its one verdict.
CHECK_DEADLOCK FALSE
INVARIANTS MatchJudgesOneContent
