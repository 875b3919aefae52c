\* One WA process at a time (it may die and be replaced) over one APK that
\* is rewritten and deleted under it.
CONSTANTS
    Procs = {p1}
    Apks = {a1}
    MaxVer <- MCMaxVer
    MaxTime <- MCMaxTime
    MaxWrites <- MCMaxWrites
    Absent = Absent
    NoStat = NoStat
    NoOut = NoOut
SPECIFICATION Spec
INVARIANTS TypeOK MemoryCoherent StoreDurable
