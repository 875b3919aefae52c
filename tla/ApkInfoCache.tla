---------------------------- MODULE ApkInfoCache ----------------------------
(***************************************************************************)
(* The persistent APK metadata cache of wa/utils/android.py:               *)
(* ApkInfoCache (store, get_info, _update_cache) and the accessor          *)
(* get_cacheable_apk_info.                                                 *)
(*                                                                         *)
(* Every WA process builds its own ApkInfoCache at import time (line 240)  *)
(* over the one file settings.apk_info_cache_file, so the processes of     *)
(* Procs share that file and nothing else.  A process is single-threaded:  *)
(* pc[p] is where it is inside one call, and every step reads or writes    *)
(* the file system at most once (os.stat, read_pod, the rename of          *)
(* atomic_write_path), so steps of different processes interleave exactly  *)
(* where the code can be interleaved.  A process may die at any point and  *)
(* a new one start in its place.                                           *)
(*                                                                         *)
(* The APK files themselves are changed by the environment: rewritten      *)
(* (a new content version and a new mtime) or deleted.  The cache key of   *)
(* line 223 is the pair <<path, st_mtime>>; the extracted ApkInfo is the   *)
(* pair <<path, content version>> it was extracted from.                   *)
(***************************************************************************)
EXTENDS Naturals, FiniteSets

CONSTANTS
    Procs,      \* the WA processes sharing the cache file
    Apks,       \* the APK paths get_cacheable_apk_info is called on
    MaxVer,     \* bound on the number of contents an APK goes through
    MaxTime,    \* bound on the clock that stamps mtimes
    MaxWrites,  \* bound on the number of renames of the cache file
    Absent,     \* "no entry for this key" in a table
    NoStat,     \* last_modified = None
    NoOut       \* no call of this process has returned yet

ASSUME ConstantsAssumption ==
    /\ Procs # {} /\ Apks # {}
    /\ MaxVer \in Nat \ {0}
    /\ MaxTime \in Nat \ {0}
    /\ MaxWrites \in Nat
    /\ NoStat \notin Nat
    /\ Absent \notin Apks \X (1..MaxVer)

Times    == 1..MaxTime
Versions == 1..MaxVer
Keys     == Apks \X Times          \* '{}-{}'.format(path, modified)
Infos    == Apks \X Versions       \* ApkInfo(path) of one content
Stats    == 1..MaxWrites           \* os.stat of one incarnation of the file
Table    == [Keys -> Infos \cup {Absent}]
EmptyTable == [k \in Keys |-> Absent]

\* Outcome of the last call of a process: an ApkInfo, or an exception (a
\* one-element tuple, so that it is comparable with, and distinct from,
\* every ApkInfo pair).
Raised == <<"raised">>
Outcomes == Infos \cup {Raised, NoOut}

\* Places inside a call.  "upd_*" are the three steps of _update_cache,
\* after which the process continues at cont[p].
PCs == {"idle", "upd_check", "upd_read", "upd_stat",
        "lookup", "extract", "write", "stat_after_write"}

VARIABLES
    \* the environment: the APK files and the clock that stamps mtimes
    clock, apkVer, apkMtime, apkPresent,
    \* the cache file: its content and its identity (0: no file yet)
    disk, diskStat,
    \* per process: self.cache, self.last_modified and the call in progress
    mem, lastMod, pc, cont, callKey, callVer, newInfo, out,
    \* history: every <<mtime, version>> an APK had; keys ever persisted
    written, storedKeys

envVars   == <<clock, apkVer, apkMtime, apkPresent>>
procVars  == <<mem, lastMod, pc, cont, callKey, callVer, newInfo, out>>
vars == <<envVars, disk, diskStat, procVars, written, storedKeys>>

TypeOK ==
    /\ clock \in Times
    /\ apkVer \in [Apks -> Versions]
    /\ apkMtime \in [Apks -> Times]
    /\ apkPresent \in [Apks -> BOOLEAN]
    /\ disk \in Table
    /\ diskStat \in 0..MaxWrites
    /\ mem \in [Procs -> Table]
    /\ lastMod \in [Procs -> Stats \cup {NoStat}]
    /\ pc \in [Procs -> PCs]
    /\ cont \in [Procs -> {"idle", "lookup", "write"}]
    /\ callKey \in [Procs -> Keys]
    /\ callVer \in [Procs -> Versions]
    /\ newInfo \in [Procs -> Infos]
    /\ out \in [Procs -> Outcomes]
    /\ written \in [Apks -> SUBSET (Times \X Versions)]
    /\ storedKeys \in SUBSET Keys

\* Every process has just been started: module import runs ApkInfoCache(),
\* whose __init__ ends with _update_cache (lines 172-177).
Init ==
    /\ clock = 1
    /\ apkVer = [a \in Apks |-> 1]
    /\ apkMtime = [a \in Apks |-> 1]
    /\ apkPresent = [a \in Apks |-> TRUE]
    /\ disk = EmptyTable
    /\ diskStat = 0
    /\ mem = [p \in Procs |-> EmptyTable]
    /\ lastMod = [p \in Procs |-> NoStat]
    /\ pc = [p \in Procs |-> "upd_check"]
    /\ cont = [p \in Procs |-> "idle"]
    /\ \E a \in Apks : callKey = [p \in Procs |-> <<a, 1>>]
    /\ callVer = [p \in Procs |-> 1]
    /\ \E a \in Apks : newInfo = [p \in Procs |-> <<a, 1>>]
    /\ out = [p \in Procs |-> NoOut]
    /\ written = [a \in Apks |-> {<<1, 1>>}]
    /\ storedKeys = {}

-----------------------------------------------------------------------------
(* Mutant: the cache key leaves out the mtime ('{}'.format(path)).        *)
StatApkKeyByPath(p, a) ==
    /\ pc[p] = "idle"
    /\ apkPresent[a]
    /\ callKey' = [callKey EXCEPT ![p] = <<a, 1>>]
    /\ callVer' = [callVer EXCEPT ![p] = apkVer[a]]
    /\ pc' = [pc EXCEPT ![p] = "upd_check"]
    /\ cont' = [cont EXCEPT ![p] = "lookup"]
    /\ UNCHANGED <<envVars, disk, diskStat, mem, lastMod, newInfo, out,
                   written, storedKeys>>

(* get_cacheable_apk_info(path), lines 219-223: os.stat of the APK.        *)
(* The key is built from the mtime seen now; callVer is the history        *)
(* variable recording which content the file had at this moment.          *)
StatApk(p, a) ==
    /\ pc[p] = "idle"
    /\ apkPresent[a]
    /\ callKey' = [callKey EXCEPT ![p] = <<a, apkMtime[a]>>]
    /\ callVer' = [callVer EXCEPT ![p] = apkVer[a]]
    /\ pc' = [pc EXCEPT ![p] = "upd_check"]
    /\ cont' = [cont EXCEPT ![p] = "lookup"]
    /\ UNCHANGED <<envVars, disk, diskStat, mem, lastMod, newInfo, out,
                   written, storedKeys>>

(* Line 221 on a path that no longer exists: os.stat raises                *)
(* FileNotFoundError out of get_cacheable_apk_info.                        *)
StatApkMissing(p, a) ==
    /\ pc[p] = "idle"
    /\ ~apkPresent[a]
    /\ out' = [out EXCEPT ![p] = Raised]
    /\ UNCHANGED <<envVars, disk, diskStat, mem, lastMod, pc, cont, callKey,
                   callVer, newInfo, written, storedKeys>>

(* Mutant: the os.path.exists test of line 205 is dropped.               *)
UpdateCheckNoExists(p) ==
    /\ pc[p] = "upd_check"
    /\ pc' = [pc EXCEPT ![p] = IF lastMod[p] = diskStat
                               THEN cont[p] ELSE "upd_read"]
    /\ UNCHANGED <<envVars, disk, diskStat, mem, lastMod, cont, callKey,
                   callVer, newInfo, out, written, storedKeys>>

(* Mutant: a last_modified of None is taken as "nothing to compare"       *)
(* (`if self.last_modified and ...`), so a new process never loads.       *)
UpdateCheckSkipsNone(p) ==
    /\ pc[p] = "upd_check"
    /\ pc' = [pc EXCEPT ![p] = IF diskStat = 0 \/ lastMod[p] = NoStat
                                  \/ lastMod[p] = diskStat
                               THEN cont[p] ELSE "upd_read"]
    /\ UNCHANGED <<envVars, disk, diskStat, mem, lastMod, cont, callKey,
                   callVer, newInfo, out, written, storedKeys>>

(* _update_cache, lines 205-207: return if the file does not exist or its  *)
(* os.stat equals last_modified; otherwise go on to reload it.             *)
UpdateCheck(p) ==
    /\ pc[p] = "upd_check"
    /\ pc' = [pc EXCEPT ![p] = IF diskStat = 0 \/ lastMod[p] = diskStat
                               THEN cont[p] ELSE "upd_read"]
    /\ UNCHANGED <<envVars, disk, diskStat, mem, lastMod, cont, callKey,
                   callVer, newInfo, out, written, storedKeys>>

(* Line 209: self.cache = read_pod(self.path).                            *)
UpdateRead(p) ==
    /\ pc[p] = "upd_read"
    /\ mem' = [mem EXCEPT ![p] = disk]
    /\ pc' = [pc EXCEPT ![p] = "upd_stat"]
    /\ UNCHANGED <<envVars, disk, diskStat, lastMod, cont, callKey, callVer,
                   newInfo, out, written, storedKeys>>

(* Line 210: self.last_modified = os.stat(self.path), a second stat taken  *)
(* after the read.                                                          *)
UpdateStat(p) ==
    /\ pc[p] = "upd_stat"
    /\ lastMod' = [lastMod EXCEPT ![p] = diskStat]
    /\ pc' = [pc EXCEPT ![p] = cont[p]]
    /\ UNCHANGED <<envVars, disk, diskStat, mem, cont, callKey, callVer,
                   newInfo, out, written, storedKeys>>

(* get_info, lines 196-199, and lines 229-230: a hit is returned.          *)
LookupHit(p) ==
    /\ pc[p] = "lookup"
    /\ mem[p][callKey[p]] # Absent
    /\ out' = [out EXCEPT ![p] = mem[p][callKey[p]]]
    /\ pc' = [pc EXCEPT ![p] = "idle"]
    /\ UNCHANGED <<envVars, disk, diskStat, mem, lastMod, cont, callKey,
                   callVer, newInfo, written, storedKeys>>

LookupMiss(p) ==
    /\ pc[p] = "lookup"
    /\ mem[p][callKey[p]] = Absent
    /\ pc' = [pc EXCEPT ![p] = "extract"]
    /\ UNCHANGED <<envVars, disk, diskStat, mem, lastMod, cont, callKey,
                   callVer, newInfo, out, written, storedKeys>>

(* Line 232: ApkInfo(path) introspects the file as it is now, then        *)
(* store(info, apk_id, overwrite=True) starts with _update_cache (183).    *)
Extract(p) ==
    LET a == callKey[p][1] IN
    /\ pc[p] = "extract"
    /\ apkPresent[a]
    /\ newInfo' = [newInfo EXCEPT ![p] = <<a, apkVer[a]>>]
    /\ pc' = [pc EXCEPT ![p] = "upd_check"]
    /\ cont' = [cont EXCEPT ![p] = "write"]
    /\ UNCHANGED <<envVars, disk, diskStat, mem, lastMod, callKey, callVer,
                   out, written, storedKeys>>

(* Line 232 on an APK deleted since line 221: the introspection raises.    *)
ExtractMissing(p) ==
    /\ pc[p] = "extract"
    /\ ~apkPresent[callKey[p][1]]
    /\ out' = [out EXCEPT ![p] = Raised]
    /\ pc' = [pc EXCEPT ![p] = "idle"]
    /\ UNCHANGED <<envVars, disk, diskStat, mem, lastMod, cont, callKey,
                   callVer, newInfo, written, storedKeys>>

(* Mutant: the table is written from a copy and the new entry never      *)
(* reaches self.cache.                                                      *)
WriteFromCopy(p) ==
    LET table == [mem[p] EXCEPT ![callKey[p]] = newInfo[p]] IN
    /\ pc[p] = "write"
    /\ diskStat < MaxWrites
    /\ disk' = table
    /\ diskStat' = diskStat + 1
    /\ storedKeys' = storedKeys \cup {callKey[p]}
    /\ pc' = [pc EXCEPT ![p] = "stat_after_write"]
    /\ UNCHANGED <<envVars, mem, lastMod, cont, callKey, callVer, newInfo,
                   out, written>>

(* store, lines 184-188: the key is inserted into self.cache and the whole *)
(* table is written to a temporary file renamed over the cache file: the   *)
(* rename is the one step at which other processes see the new table.      *)
(* (overwrite is True at the only call site, line 234, so the ValueError   *)
(* of line 185 cannot be raised.)                                           *)
Write(p) ==
    LET table == [mem[p] EXCEPT ![callKey[p]] = newInfo[p]] IN
    /\ pc[p] = "write"
    /\ diskStat < MaxWrites
    /\ mem' = [mem EXCEPT ![p] = table]
    /\ disk' = table
    /\ diskStat' = diskStat + 1
    /\ storedKeys' = storedKeys \cup {callKey[p]}
    /\ pc' = [pc EXCEPT ![p] = "stat_after_write"]
    /\ UNCHANGED <<envVars, lastMod, cont, callKey, callVer, newInfo, out,
                   written>>

(* Line 189: self.last_modified = os.stat(self.path) after the rename;    *)
(* then get_cacheable_apk_info returns the extracted info (237).           *)
StatAfterWrite(p) ==
    /\ pc[p] = "stat_after_write"
    /\ lastMod' = [lastMod EXCEPT ![p] = diskStat]
    /\ out' = [out EXCEPT ![p] = newInfo[p]]
    /\ pc' = [pc EXCEPT ![p] = "idle"]
    /\ UNCHANGED <<envVars, disk, diskStat, mem, cont, callKey, callVer,
                   newInfo, written, storedKeys>>

(* The process dies wherever it is and a new WA process takes its place:  *)
(* its memory is lost and ApkInfoCache() runs again (lines 172-177).  The  *)
(* rename of atomic_write_path means a death never leaves a partial file.  *)
Restart(p) ==
    /\ mem' = [mem EXCEPT ![p] = EmptyTable]
    /\ lastMod' = [lastMod EXCEPT ![p] = NoStat]
    /\ pc' = [pc EXCEPT ![p] = "upd_check"]
    /\ cont' = [cont EXCEPT ![p] = "idle"]
    /\ UNCHANGED <<envVars, disk, diskStat, callKey, callVer, newInfo, out,
                   written, storedKeys>>

-----------------------------------------------------------------------------
(* The environment.  A rewrite gives the APK a new content and stamps it   *)
(* with the current clock; the guard apkMtime[a] < clock is the cache's    *)
(* documented assumption that a file is never rewritten with an unchanged  *)
(* mtime.  A deleted APK may be put back the same way.                     *)
Tick ==
    /\ clock < MaxTime
    /\ clock' = clock + 1
    /\ UNCHANGED <<apkVer, apkMtime, apkPresent, disk, diskStat, procVars,
                   written, storedKeys>>

RewriteApk(a) ==
    /\ apkVer[a] < MaxVer
    /\ apkMtime[a] < clock
    /\ apkVer' = [apkVer EXCEPT ![a] = apkVer[a] + 1]
    /\ apkMtime' = [apkMtime EXCEPT ![a] = clock]
    /\ apkPresent' = [apkPresent EXCEPT ![a] = TRUE]
    /\ written' = [written EXCEPT ![a] = @ \cup {<<clock, apkVer[a] + 1>>}]
    /\ UNCHANGED <<clock, disk, diskStat, procVars, storedKeys>>

DeleteApk(a) ==
    /\ apkPresent[a]
    /\ apkPresent' = [apkPresent EXCEPT ![a] = FALSE]
    /\ UNCHANGED <<clock, apkVer, apkMtime, disk, diskStat, procVars,
                   written, storedKeys>>

Environment ==
    \/ Tick
    \/ \E a \in Apks : RewriteApk(a) \/ DeleteApk(a)

Process(p) ==
    \/ \E a \in Apks : StatApk(p, a) \/ StatApkMissing(p, a)
    \/ UpdateCheck(p) \/ UpdateRead(p) \/ UpdateStat(p)
    \/ LookupHit(p) \/ LookupMiss(p)
    \/ Extract(p) \/ ExtractMissing(p)
    \/ Write(p) \/ StatAfterWrite(p)
    \/ Restart(p)

Next == Environment \/ \E p \in Procs : Process(p)

Spec == Init /\ [][Next]_vars

-----------------------------------------------------------------------------
(* Properties.                                                             *)

(* The invariant that makes FreshReturn hold, and the one its proof uses.  *)
(* Every rewrite stamps a fresh mtime, so an mtime names one content of    *)
(* its APK (MtimeNamesVersion).  A table entry under <<a, m>> is the info  *)
(* of a content of a no older than the one a had at mtime m (EntryOK):     *)
(* the only writer of an entry extracts after its os.stat (lines 221,      *)
(* 232).  A call in progress remembers the content its os.stat saw, and    *)
(* the info it extracted is of that content or a newer one.                *)
HistoryOK(a) ==
    /\ <<apkMtime[a], apkVer[a]>> \in written[a]
    /\ apkMtime[a] <= clock
    /\ \A h \in written[a] : h[1] <= apkMtime[a] /\ h[2] <= apkVer[a]

MtimeNamesVersion(a) ==
    \A h1, h2 \in written[a] : h1[1] = h2[1] => h1[2] = h2[2]

EntryOK(t) ==
    \A k \in Keys : t[k] # Absent =>
        /\ t[k][1] = k[1]
        /\ t[k][2] <= apkVer[k[1]]
        /\ \E v \in Versions : <<k[2], v>> \in written[k[1]] /\ v <= t[k][2]

InCall(p) ==
    \/ pc[p] \in {"lookup", "extract", "write", "stat_after_write"}
    \/ pc[p] \in {"upd_check", "upd_read", "upd_stat"} /\ cont[p] # "idle"

Extracted(p) ==
    \/ pc[p] \in {"write", "stat_after_write"}
    \/ pc[p] \in {"upd_check", "upd_read", "upd_stat"} /\ cont[p] = "write"

CallOK(p) ==
    /\ InCall(p) =>
          /\ <<callKey[p][2], callVer[p]>> \in written[callKey[p][1]]
          /\ callVer[p] <= apkVer[callKey[p][1]]
    /\ Extracted(p) =>
          /\ newInfo[p][1] = callKey[p][1]
          /\ callVer[p] <= newInfo[p][2]
          /\ newInfo[p][2] <= apkVer[callKey[p][1]]

\* read_pod and the stats of lines 210 and 189 only run on an existing file.
StatOK ==
    \A p \in Procs :
        pc[p] \in {"upd_read", "upd_stat", "stat_after_write"} => diskStat > 0

FreshnessInvariant ==
    /\ TypeOK
    /\ StatOK
    /\ \A a \in Apks : HistoryOK(a) /\ MtimeNamesVersion(a)
    /\ EntryOK(disk)
    /\ \A p \in Procs : EntryOK(mem[p]) /\ CallOK(p)

(* No stale metadata (the contract of the <<path, mtime>> key, line 223):  *)
(* whenever get_cacheable_apk_info returns an ApkInfo to process p, it is  *)
(* the info of the APK p asked about, extracted from the content the file  *)
(* had when p stat'ed it or from a later one, never an older content, even *)
(* when hits, misses, rewrites and other processes' stores interleave.     *)
ReturnsInfo(p) ==
    pc[p] \in {"lookup", "stat_after_write"} /\ pc'[p] = "idle" /\ out'[p] \in Infos

FreshReturn ==
    [][\A p \in Procs :
         ReturnsInfo(p) =>
            /\ out'[p][1] = callKey[p][1]
            /\ callVer[p] <= out'[p][2]
            /\ out'[p][2] <= apkVer[callKey[p][1]]]_vars

(* The reload test of _update_cache (line 207) is sound: whenever a        *)
(* process's last_modified is the identity of the current cache file, its  *)
(* in-memory table is exactly that file's content.                         *)
MemoryCoherent ==
    \A p \in Procs : lastMod[p] = diskStat => mem[p] = disk

(* A store is durable: once a key has been persisted by a rename of store  *)
(* (line 188), the cache file keeps an entry for it (the code never        *)
(* deletes entries, only replaces the whole table).                        *)
StoreDurable ==
    \A k \in storedKeys : disk[k] # Absent

(* get_cacheable_apk_info is total, as the spec requires of the predicate  *)
(* evaluation built on it: it returns None for a missing file rather than  *)
(* raising.                                                                 *)
NeverRaises ==
    \A p \in Procs : out[p] # Raised
=============================================================================
