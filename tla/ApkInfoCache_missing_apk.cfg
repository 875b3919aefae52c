\* One WA process asking for the info of an APK that is deleted.
CONSTANTS
    Procs = {p1}
    Apks = {a1}
    MaxVer <- MCMaxVer
    MaxTime <- MCMaxTime
    MaxWrites <- MCMaxWrites
    Absent = Absent
    NoStat = NoStat
    NoOut = NoOut
SPECIFICATION Spec
INVARIANTS NeverRaises
