\* The same requests: a variant that is not a valid regular expression.
CONSTANTS
    None = None
    Pending = Pending
    Raised = Raised
    Pkg = Pkg
    UiPkg = UiPkg
    Arm = Arm
    X86 = X86
    UiautoPackages <- UiautoSet
SPECIFICATION Spec
\* A pure function: nothing happens after its one evaluation.
CHECK_DEADLOCK FALSE
INVARIANTS MatchNeverRaises
