\* Two WA processes sharing the cache file; the APK is rewritten and deleted under them.
CONSTANTS
    Procs = {p1, p2}
    Apks = {a1}
    MaxVer <- MCMaxVer
    MaxTime <- MCMaxTime
    MaxWrites <- MCMaxWrites
    Absent = Absent
    NoStat = NoStat
    NoOut = NoOut
SPECIFICATION Spec
INVARIANTS FreshnessInvariant
PROPERTIES FreshReturn
