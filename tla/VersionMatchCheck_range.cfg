\* Versions of up to two segments over 0..2: "2" against min_version "2.0".
CONSTANTS
    None = None
    Pending = Pending
    UiautoPackages = {}
    MaxSeg = 2
    MaxLen = 2
SPECIFICATION Spec
\* A pure function: nothing happens after its one evaluation.
CHECK_DEADLOCK FALSE
INVARIANT RangeMatchIsSemantic
