\* Two WA processes storing into the shared cache file: a persisted entry can be lost.
CONSTANTS
    Procs = {p1, p2}
    Apks = {a1}
    MaxVer <- MCMaxVer
    MaxTime <- MCMaxTime
    MaxWrites <- MCMaxWrites
    Absent = Absent
    NoStat = NoStat
    NoOut = NoOut
SPECIFICATION Spec
INVARIANTS StoreDurable
