------------------------- MODULE ApkInfoCache_proofs -------------------------
(* Proofs about ApkInfoCache, for every set of processes and APKs and      *)
(* every bound.                                                             *)
EXTENDS ApkInfoCache, TLAPS

TypeInv == TypeOK /\ StatOK

(* Every action keeps the variables in their types; StatOK is needed       *)
(* because UpdateStat and StatAfterWrite record diskStat as a stat, which  *)
(* is only a stat once the file exists.                                    *)
LEMMA TypeInit == Init => TypeInv
<1> USE ConstantsAssumption
<1>1. Init => TypeInv
  <2> SUFFICES ASSUME Init PROVE TypeInv
    OBVIOUS
  <2>1. PICK a \in Apks : callKey = [p \in Procs |-> <<a, 1>>]
    BY DEF Init
  <2>2. PICK b \in Apks : newInfo = [p \in Procs |-> <<b, 1>>]
    BY DEF Init
  <2>3. QED
    BY <2>1, <2>2 DEF Init, TypeInv, TypeOK, StatOK, Table, EmptyTable, Keys,
       Infos, Times, Versions, Outcomes, Stats, PCs
<1>2. QED
  BY <1>1

(* Every step of a process or of the environment keeps TypeInv.          *)
LEMMA TypeStep == TypeInv /\ [Next]_vars => TypeInv'
<1> USE ConstantsAssumption
<1>2. TypeInv /\ [Next]_vars => TypeInv'
  <2> SUFFICES ASSUME TypeInv, [Next]_vars PROVE TypeInv'
    OBVIOUS
  <2> USE DEF TypeInv, TypeOK, StatOK, Table, EmptyTable, Keys, Infos,
              Times, Versions, Outcomes, Stats, PCs
  <2>1. CASE Tick
    BY <2>1 DEF Tick, procVars
  <2>2. ASSUME NEW a \in Apks, RewriteApk(a) PROVE TypeInv'
    BY <2>2 DEF RewriteApk, procVars
  <2>3. ASSUME NEW a \in Apks, DeleteApk(a) PROVE TypeInv'
    BY <2>3 DEF DeleteApk, procVars
  <2>4. ASSUME NEW p \in Procs, NEW a \in Apks, StatApk(p, a) PROVE TypeInv'
    BY <2>4 DEF StatApk, envVars
  <2>5. ASSUME NEW p \in Procs, NEW a \in Apks, StatApkMissing(p, a)
        PROVE TypeInv'
    BY <2>5 DEF StatApkMissing, envVars, Raised
  <2>6. ASSUME NEW p \in Procs, UpdateCheck(p) PROVE TypeInv'
    BY <2>6 DEF UpdateCheck, envVars
  <2>7. ASSUME NEW p \in Procs, UpdateRead(p) PROVE TypeInv'
    BY <2>7 DEF UpdateRead, envVars
  <2>8. ASSUME NEW p \in Procs, UpdateStat(p) PROVE TypeInv'
    BY <2>8 DEF UpdateStat, envVars
  <2>9. ASSUME NEW p \in Procs, LookupHit(p) PROVE TypeInv'
    BY <2>9 DEF LookupHit, envVars
  <2>10. ASSUME NEW p \in Procs, LookupMiss(p) PROVE TypeInv'
    BY <2>10 DEF LookupMiss, envVars
  <2>11. ASSUME NEW p \in Procs, Extract(p) PROVE TypeInv'
    BY <2>11 DEF Extract, envVars
  <2>12. ASSUME NEW p \in Procs, ExtractMissing(p) PROVE TypeInv'
    BY <2>12 DEF ExtractMissing, envVars, Raised
  <2>13. ASSUME NEW p \in Procs, Write(p) PROVE TypeInv'
    BY <2>13 DEF Write, envVars
  <2>14. ASSUME NEW p \in Procs, StatAfterWrite(p) PROVE TypeInv'
    BY <2>14 DEF StatAfterWrite, envVars
  <2>15. ASSUME NEW p \in Procs, Restart(p) PROVE TypeInv'
    BY <2>15 DEF Restart, envVars
  <2>16. CASE UNCHANGED vars
    BY <2>16 DEF vars, envVars, procVars
  <2>17. QED
    BY <2>1, <2>2, <2>3, <2>4, <2>5, <2>6, <2>7, <2>8, <2>9, <2>10, <2>11,
       <2>12, <2>13, <2>14, <2>15, <2>16
       DEF Next, Environment, Process
<1>3. QED
  BY <1>2

(* Type correctness of the cache model as a temporal theorem.              *)
THEOREM TypeCorrect == Spec => []TypeInv
BY TypeInit, TypeStep, PTL DEF Spec

(* The type invariant TypeOK that run apk_single checks holds in every     *)
(* reachable state of the cache, for every number of processes and APKs.  *)
THEOREM TypeOKHolds == Spec => []TypeOK
<1>1. TypeInv => TypeOK
  BY DEF TypeInv
<1> QED
  BY <1>1, TypeCorrect, PTL

-----------------------------------------------------------------------------
IInv == FreshnessInvariant

HistInv == \A a \in Apks : HistoryOK(a) /\ MtimeNamesVersion(a)

(* EntryOK with the APK versions and the history as parameters.            *)
EntryAt(t, V, W) ==
    \A k \in Keys : t[k] # Absent =>
        /\ t[k][1] = k[1]
        /\ t[k][2] <= V[k[1]]
        /\ \E v \in Versions : <<k[2], v>> \in W[k[1]] /\ v <= t[k][2]

(* Versions only grow and the history only gains pairs.                    *)
Grows == \A b \in Apks : apkVer[b] <= apkVer'[b] /\ written[b] \subseteq written'[b]

(* The initial state, where every process is in __init__ with an empty   *)
(* table and no cache file exists, satisfies the freshness invariant.     *)
LEMMA FreshInit == Init => IInv
<1> SUFFICES ASSUME Init PROVE IInv
  OBVIOUS
<1> USE ConstantsAssumption
<1>1. TypeInv
  BY TypeInit
<1>2. \A a \in Apks : HistoryOK(a) /\ MtimeNamesVersion(a)
  BY DEF Init, HistoryOK, MtimeNamesVersion
<1>3. EntryOK(disk) /\ \A p \in Procs : EntryOK(mem[p])
  BY DEF Init, EntryOK, EmptyTable
<1>4. \A p \in Procs : CallOK(p)
  BY DEF Init, CallOK, InCall, Extracted
<1>5. QED
  BY <1>1, <1>2, <1>3, <1>4 DEF IInv, FreshnessInvariant, TypeInv

(* An entry stays well-founded when versions grow and history is added.    *)
LEMMA EntryMono ==
    ASSUME NEW t, NEW V1, NEW W1, NEW V2, NEW W2,
           V1 \in [Apks -> Nat], V2 \in [Apks -> Nat],
           \A b \in Apks : V1[b] <= V2[b] /\ W1[b] \subseteq W2[b],
           EntryAt(t, V1, W1),
           \A k \in Keys : t[k] # Absent => t[k] \in Infos
    PROVE  EntryAt(t, V2, W2)
<1> USE ConstantsAssumption
<1> QED
  BY DEF EntryAt, Keys, Infos, Versions

(* No step makes an APK's content older or forgets its history.          *)
LEMMA GrowsStep == TypeInv /\ TypeInv' /\ [Next]_vars => Grows
<1> SUFFICES ASSUME TypeInv, TypeInv', [Next]_vars PROVE Grows
  OBVIOUS
<1> USE ConstantsAssumption DEF TypeInv, TypeOK, Versions
<1>1. ASSUME NEW a \in Apks, RewriteApk(a) PROVE Grows
  BY <1>1 DEF RewriteApk, Grows
<1>2. CASE UNCHANGED <<apkVer, written>>
  BY <1>2 DEF Grows
<1>3. QED
  BY <1>1, <1>2 DEF Next, Environment, Process, Tick, DeleteApk, StatApk,
     StatApkMissing, UpdateCheck, UpdateRead, UpdateStat, LookupHit,
     LookupMiss, Extract, ExtractMissing, Write, StatAfterWrite, Restart,
     vars, envVars

(* Rewrites stamp a fresh mtime, so each mtime keeps naming one content.  *)
LEMMA HistStep == TypeOK /\ HistInv /\ [Next]_vars => HistInv'
<1> SUFFICES ASSUME TypeOK, HistInv, [Next]_vars PROVE HistInv'
  OBVIOUS
<1> USE ConstantsAssumption DEF TypeOK
<1>1. CASE Tick
  <2> SUFFICES ASSUME NEW b \in Apks PROVE HistoryOK(b)' /\ MtimeNamesVersion(b)'
    BY DEF HistInv
  <2>1. HistoryOK(b) /\ MtimeNamesVersion(b)
    BY DEF HistInv
  <2>2. QED
    BY <1>1, <2>1 DEF Tick, HistoryOK, MtimeNamesVersion, Times
<1>2. ASSUME NEW a \in Apks, RewriteApk(a) PROVE HistInv'
  <2> USE <1>2 DEF RewriteApk
  <2>0. HistoryOK(a) /\ MtimeNamesVersion(a)
    BY DEF HistInv
  <2>1. ASSUME NEW b \in Apks, b # a PROVE HistoryOK(b)' /\ MtimeNamesVersion(b)'
    <3>1. HistoryOK(b) /\ MtimeNamesVersion(b)
      BY DEF HistInv
    <3>2. QED
      BY <2>1, <3>1 DEF HistoryOK, MtimeNamesVersion
  <2>2. HistoryOK(a)'
    BY <2>0 DEF HistoryOK, Times, Versions
  <2>3. MtimeNamesVersion(a)'
    <3>1. \A h \in written[a] : h[1] < clock
      BY <2>0 DEF HistoryOK, Times
    <3>2. written'[a] = written[a] \cup {<<clock, apkVer[a] + 1>>}
      OBVIOUS
    <3>3. \A h \in written[a] : h \in Times \X Versions
      OBVIOUS
    <3>4. QED
      BY <2>0, <3>1, <3>2, <3>3 DEF MtimeNamesVersion, Times
  <2>4. QED
    BY <2>1, <2>2, <2>3 DEF HistInv
<1>3. CASE UNCHANGED <<clock, apkVer, apkMtime, written>>
  BY <1>3 DEF HistInv, HistoryOK, MtimeNamesVersion
<1>4. QED
  BY <1>1, <1>2, <1>3 DEF Next, Environment, Process, DeleteApk, StatApk,
     StatApkMissing, UpdateCheck, UpdateRead, UpdateStat, LookupHit,
     LookupMiss, Extract, ExtractMissing, Write, StatAfterWrite, Restart,
     vars, envVars

(* EntryOK written with the version and history functions as parameters. *)
LEMMA EntryAtDef ==
    ASSUME NEW t PROVE EntryOK(t) <=> EntryAt(t, apkVer, written)
BY DEF EntryOK, EntryAt

(* The table store writes (line 186) is well-founded: the new entry is the *)
(* info the call extracted after its os.stat.                              *)
LEMMA WriteTableOK ==
    ASSUME TypeOK, NEW p \in Procs, EntryOK(mem[p]), CallOK(p), pc[p] = "write"
    PROVE  EntryAt([mem[p] EXCEPT ![callKey[p]] = newInfo[p]], apkVer, written)
<1> USE ConstantsAssumption DEF TypeOK
<1>1. /\ <<callKey[p][2], callVer[p]>> \in written[callKey[p][1]]
      /\ newInfo[p][1] = callKey[p][1]
      /\ callVer[p] <= newInfo[p][2]
      /\ newInfo[p][2] <= apkVer[callKey[p][1]]
  BY DEF CallOK, InCall, Extracted
<1>2. callKey[p] \in Keys /\ newInfo[p] \in Infos /\ callVer[p] \in Versions
  OBVIOUS
<1> QED
  BY <1>1, <1>2 DEF EntryOK, EntryAt, Keys, Infos, Table, Versions

EntInv == EntryOK(disk) /\ \A q \in Procs : EntryOK(mem[q])
CallInv == \A q \in Procs : CallOK(q)

(* Every step keeps all entries of the file and of every process's memory *)
(* well-founded: reloads copy the file, stores add the extracted info.    *)
LEMMA EntStep ==
    ASSUME TypeOK, TypeOK', EntInv, CallInv, Grows, [Next]_vars
    PROVE  EntInv'
<1> USE ConstantsAssumption
<1> DEFINE EP(t) == EntryAt(t, apkVer', written')
<1>1. ASSUME NEW t \in Table, EntryOK(t) PROVE EP(t)
  <2>1. EntryAt(t, apkVer, written)
    BY <1>1, EntryAtDef
  <2>2. apkVer \in [Apks -> Nat] /\ apkVer' \in [Apks -> Nat]
    BY DEF TypeOK, Versions
  <2>3. \A b \in Apks : apkVer[b] <= apkVer'[b] /\ written[b] \subseteq written'[b]
    BY DEF Grows
  <2>4. \A k \in Keys : t[k] # Absent => t[k] \in Infos
    BY DEF Table
  <2>5. QED
    BY <2>1, <2>2, <2>3, <2>4, EntryMono
<1>2. ASSUME NEW p \in Procs, pc[p] = "write"
      PROVE  EP([mem[p] EXCEPT ![callKey[p]] = newInfo[p]])
  <2> DEFINE table == [mem[p] EXCEPT ![callKey[p]] = newInfo[p]]
  <2>1. EntryAt(table, apkVer, written)
    BY <1>2, WriteTableOK DEF EntInv, CallInv
  <2>2. table \in Table
    BY DEF TypeOK, Table, Keys, Infos
  <2>3. EntryOK(table)
    BY <2>1, EntryAtDef
  <2>4. QED
    BY <2>2, <2>3, <1>1
<1>3. EP(EmptyTable)
  BY DEF EntryAt, EmptyTable
<1>4. EntryOK(disk)'
  <2> SUFFICES EP(disk')
    BY DEF EntryOK, EntryAt
  <2>1. CASE disk' = disk
    BY <2>1, <1>1 DEF EntInv, TypeOK
  <2>2. ASSUME NEW p \in Procs, Write(p) PROVE EP(disk')
    BY <2>2, <1>2 DEF Write
  <2>3. QED
    BY <2>1, <2>2 DEF Next, Environment, Process, Tick, RewriteApk,
       DeleteApk, StatApk, StatApkMissing, UpdateCheck, UpdateRead,
       UpdateStat, LookupHit, LookupMiss, Extract, ExtractMissing,
       StatAfterWrite, Restart, vars
<1>5. ASSUME NEW q \in Procs PROVE EntryOK(mem[q])'
  <2> SUFFICES EP(mem'[q])
    BY DEF EntryOK, EntryAt
  <2>1. CASE mem'[q] = mem[q]
    BY <2>1, <1>1 DEF EntInv, TypeOK
  <2>2. CASE mem'[q] = disk
    BY <2>2, <1>1 DEF EntInv, TypeOK
  <2>3. CASE mem'[q] = EmptyTable
    BY <2>3, <1>3
  <2>4. ASSUME NEW p \in Procs, Write(p), p = q PROVE EP(mem'[q])
    <3>1. mem \in [Procs -> Table]
      BY DEF TypeOK
    <3>2. mem'[q] = [mem[p] EXCEPT ![callKey[p]] = newInfo[p]] /\ pc[p] = "write"
      BY <2>4, <3>1 DEF Write
    <3>3. QED
      BY <3>2, <1>2, <2>4
  <2>5. ASSUME NEW p \in Procs, UpdateRead(p) PROVE EP(mem'[q])
    <3>1. mem'[q] = IF p = q THEN disk ELSE mem[q]
      BY <2>5 DEF UpdateRead, TypeOK
    <3>2. QED
      BY <3>1, <2>1, <2>2
  <2>6. ASSUME NEW p \in Procs, Restart(p) PROVE EP(mem'[q])
    <3>1. mem'[q] = IF p = q THEN EmptyTable ELSE mem[q]
      BY <2>6 DEF Restart, TypeOK
    <3>2. QED
      BY <3>1, <2>1, <2>3
  <2>7. ASSUME NEW p \in Procs, Write(p) PROVE EP(mem'[q])
    <3>1. CASE p = q
      BY <3>1, <2>7, <2>4
    <3>2. CASE p # q
      BY <3>2, <2>7, <2>1 DEF Write, TypeOK
    <3>3. QED
      BY <3>1, <3>2
  <2>8. CASE UNCHANGED mem
    BY <2>8, <2>1
  <2>9. QED
    BY <2>5, <2>6, <2>7, <2>8 DEF Next, Environment, Process, Tick, RewriteApk,
       DeleteApk, StatApk, StatApkMissing, UpdateCheck, UpdateStat,
       LookupHit, LookupMiss, Extract, ExtractMissing, StatAfterWrite, vars,
       procVars
<1>6. QED
  BY <1>4, <1>5 DEF EntInv

(* Every step keeps each call in progress consistent with the content its *)
(* os.stat saw and the info it extracted.                                  *)
LEMMA CallStep ==
    ASSUME TypeOK, TypeOK', HistInv, CallInv, Grows, [Next]_vars
    PROVE  CallInv'
<1> SUFFICES ASSUME NEW q \in Procs PROVE CallOK(q)'
  BY DEF CallInv
<1> USE ConstantsAssumption
<1>0. CallOK(q)
  BY DEF CallInv
<1>1. CASE UNCHANGED <<pc, cont, callKey, callVer, newInfo>>
  BY <1>0, <1>1 DEF Grows, CallOK, InCall, Extracted, TypeOK, Keys, Infos,
     Versions
<1>2. ASSUME NEW p \in Procs, NEW a \in Apks, StatApk(p, a) PROVE CallOK(q)'
  <2>1. HistoryOK(a)
    BY DEF HistInv
  <2>2. QED
    BY <1>0, <1>2, <2>1 DEF StatApk, envVars, CallOK, InCall, Extracted,
       HistoryOK, TypeOK
<1>3. ASSUME NEW p \in Procs, Extract(p) PROVE CallOK(q)'
  BY <1>0, <1>3 DEF Extract, envVars, CallOK, InCall, Extracted, TypeOK,
     Keys, Infos, Versions
<1>4. ASSUME NEW p \in Procs, UpdateCheck(p) PROVE CallOK(q)'
  BY <1>0, <1>4 DEF UpdateCheck, envVars, CallOK, InCall, Extracted, TypeOK
<1>5. ASSUME NEW p \in Procs, UpdateRead(p) PROVE CallOK(q)'
  BY <1>0, <1>5 DEF UpdateRead, envVars, CallOK, InCall, Extracted, TypeOK
<1>6. ASSUME NEW p \in Procs, UpdateStat(p) PROVE CallOK(q)'
  BY <1>0, <1>6 DEF UpdateStat, envVars, CallOK, InCall, Extracted, TypeOK
<1>7. ASSUME NEW p \in Procs, LookupHit(p) PROVE CallOK(q)'
  BY <1>0, <1>7 DEF LookupHit, envVars, CallOK, InCall, Extracted, TypeOK
<1>8. ASSUME NEW p \in Procs, LookupMiss(p) PROVE CallOK(q)'
  BY <1>0, <1>8 DEF LookupMiss, envVars, CallOK, InCall, Extracted, TypeOK
<1>9. ASSUME NEW p \in Procs, ExtractMissing(p) PROVE CallOK(q)'
  BY <1>0, <1>9 DEF ExtractMissing, envVars, CallOK, InCall, Extracted, TypeOK
<1>10. ASSUME NEW p \in Procs, Write(p) PROVE CallOK(q)'
  BY <1>0, <1>10 DEF Write, envVars, CallOK, InCall, Extracted, TypeOK
<1>11. ASSUME NEW p \in Procs, StatAfterWrite(p) PROVE CallOK(q)'
  BY <1>0, <1>11 DEF StatAfterWrite, envVars, CallOK, InCall, Extracted, TypeOK
<1>12. ASSUME NEW p \in Procs, Restart(p) PROVE CallOK(q)'
  BY <1>0, <1>12 DEF Restart, envVars, CallOK, InCall, Extracted, TypeOK
<1>13. QED
  BY <1>1, <1>2, <1>3, <1>4, <1>5, <1>6, <1>7, <1>8, <1>9, <1>10, <1>11, <1>12 DEF Next, Environment,
     Process, Tick, RewriteApk, DeleteApk, StatApkMissing, vars, procVars

(* FreshnessInvariant is inductive.                                        *)
LEMMA IInvStep == IInv /\ [Next]_vars => IInv'
<1> SUFFICES ASSUME IInv, [Next]_vars PROVE IInv'
  OBVIOUS
<1>1. TypeInv /\ TypeInv'
  BY TypeStep DEF IInv, FreshnessInvariant, TypeInv
<1>2. Grows
  BY <1>1, GrowsStep
<1>3. HistInv'
  BY HistStep DEF IInv, FreshnessInvariant, HistInv, TypeInv
<1>4. EntInv'
  BY <1>1, <1>2, EntStep DEF IInv, FreshnessInvariant, EntInv, CallInv, TypeInv
<1>5. CallInv'
  BY <1>1, <1>2, CallStep DEF IInv, FreshnessInvariant, HistInv, CallInv,
     TypeInv
<1>6. QED
  BY <1>1, <1>3, <1>4, <1>5 DEF IInv, FreshnessInvariant, TypeInv, HistInv,
     EntInv, CallInv

(* The freshness invariant holds in every reachable state, for any number  *)
(* of WA processes sharing the cache file and any bounds.                  *)
THEOREM FreshnessInvariantHolds == Spec => []FreshnessInvariant
BY FreshInit, IInvStep, PTL DEF Spec, IInv

(* A step of one process leaves the place of every other process alone.  *)
LEMMA PcFrame ==
    ASSUME TypeOK, NEW r \in Procs, Process(r), NEW q \in Procs, q # r
    PROVE  pc'[q] = pc[q]
BY DEF Process, TypeOK, StatApk, StatApkMissing, UpdateCheck, UpdateRead,
   UpdateStat, LookupHit, LookupMiss, Extract, ExtractMissing, Write,
   StatAfterWrite, Restart

(* A step that returns an ApkInfo returns one of the right APK, of the     *)
(* content its os.stat saw or a newer one: FreshReturn.                     *)
LEMMA ReturnFresh == IInv /\ [Next]_vars =>
    [\A p \in Procs :
         ReturnsInfo(p) =>
            /\ out'[p][1] = callKey[p][1]
            /\ callVer[p] <= out'[p][2]
            /\ out'[p][2] <= apkVer[callKey[p][1]]]_vars
<1> SUFFICES ASSUME IInv, [Next]_vars, NEW p \in Procs, ReturnsInfo(p)
             PROVE  /\ out'[p][1] = callKey[p][1]
                    /\ callVer[p] <= out'[p][2]
                    /\ out'[p][2] <= apkVer[callKey[p][1]]
  OBVIOUS
<1> USE ConstantsAssumption
<1>0. TypeOK /\ HistInv /\ EntryOK(mem[p]) /\ CallOK(p)
  BY DEF IInv, FreshnessInvariant, HistInv
<1>1. CASE LookupHit(p)
  <2> DEFINE k == callKey[p]
             e == mem[p][k]
  <2>1. k \in Keys /\ e # Absent /\ e \in Infos
    BY <1>0, <1>1 DEF LookupHit, TypeOK, Table
  <2>2. /\ e[1] = k[1] /\ e[2] <= apkVer[k[1]]
        /\ \E v \in Versions : <<k[2], v>> \in written[k[1]] /\ v <= e[2]
    <3>1. \A kk \in Keys : mem[p][kk] # Absent =>
              /\ mem[p][kk][1] = kk[1] /\ mem[p][kk][2] <= apkVer[kk[1]]
              /\ \E v \in Versions : <<kk[2], v>> \in written[kk[1]] /\ v <= mem[p][kk][2]
      BY <1>0 DEF EntryOK
    <3>2. QED
      BY <3>1, <2>1, Zenon
  <2>3. PICK v \in Versions : <<k[2], v>> \in written[k[1]] /\ v <= e[2]
    BY <2>2
  <2>4. InCall(p)
    BY <1>1 DEF LookupHit, InCall
  <2>5. <<k[2], callVer[p]>> \in written[k[1]]
    BY <1>0, <2>4 DEF CallOK
  <2>6. MtimeNamesVersion(k[1])
    BY <1>0, <2>1 DEF HistInv, Keys
  <2>7. callVer[p] = v
    BY <2>3, <2>5, <2>6 DEF MtimeNamesVersion
  <2>8. out'[p] = e
    BY <1>0, <1>1 DEF LookupHit, TypeOK
  <2>9. QED
    BY <2>2, <2>3, <2>7, <2>8
<1>2. CASE StatAfterWrite(p)
  <2>1. Extracted(p)
    BY <1>2 DEF StatAfterWrite, Extracted
  <2>2. out'[p] = newInfo[p]
    BY <1>0, <1>2 DEF StatAfterWrite, TypeOK
  <2>3. QED
    BY <1>0, <2>1, <2>2 DEF CallOK
<1>3. QED
  <2>1. pc[p] \in {"lookup", "stat_after_write"} /\ pc'[p] = "idle" /\ out'[p] \in Infos
    BY DEF ReturnsInfo
  <2>2. CASE UNCHANGED vars
    BY <2>1, <2>2 DEF vars, procVars
  <2>3. CASE Environment
    BY <2>1, <2>3 DEF Environment, Tick, RewriteApk, DeleteApk, procVars
  <2>4. ASSUME NEW r \in Procs, Process(r), r # p PROVE FALSE
    BY <1>0, <2>1, <2>4, PcFrame
  <2>5. CASE Process(p)
    <3>2. CASE LookupMiss(p) \/ Restart(p)
      BY <1>0, <2>1, <3>2 DEF LookupMiss, Restart, TypeOK
    <3>3. CASE \/ \E a \in Apks : StatApk(p, a) \/ StatApkMissing(p, a)
               \/ UpdateCheck(p) \/ UpdateRead(p) \/ UpdateStat(p)
               \/ Extract(p) \/ ExtractMissing(p) \/ Write(p)
      BY <2>1, <3>3 DEF StatApk, StatApkMissing, UpdateCheck, UpdateRead,
         UpdateStat, Extract, ExtractMissing, Write
    <3>4. QED
      BY <1>1, <1>2, <3>2, <3>3, <2>5 DEF Process
  <2>6. QED
    BY <2>2, <2>3, <2>4, <2>5 DEF Next

(* FreshReturn holds of every behaviour of the cache.                       *)
THEOREM FreshReturnHolds == Spec => FreshReturn
<1>1. Spec => []IInv
  BY FreshnessInvariantHolds DEF IInv
<1>2. []IInv /\ [][Next]_vars => FreshReturn
  BY ReturnFresh, PTL DEF FreshReturn
<1>3. QED
  BY <1>1, <1>2 DEF Spec

-----------------------------------------------------------------------------
(* One process.  The cache file is changed only by the rename of store,    *)
(* so with a single process self.cache and the file cannot drift apart:    *)
(* MemoryCoherent and StoreDurable hold for every bound.  With two        *)
(* processes StoreDurable fails (run apk_lost_store).                      *)
SingleProcess == \A p, q \in Procs : p = q

(* The places of a call at which self.cache has just been loaded or        *)
(* written and nothing has changed the file since.                         *)
Synced == {"upd_stat", "lookup", "extract", "write", "stat_after_write"}

Coherent(p) ==
    /\ (lastMod[p] = diskStat \/ diskStat = 0) => mem[p] = disk
    /\ pc[p] \in Synced => mem[p] = disk

(* MemoryCoherent is not inductive: a process at "write" must hold the     *)
(* file's table even though its last_modified is older, and before the    *)
(* file exists it must hold the empty table.                               *)
CohInv ==
    /\ TypeInv
    /\ diskStat = 0 => disk = EmptyTable
    /\ \A p \in Procs : Coherent(p)
    /\ StoreDurable

(* The initial state: no file, every table empty, nothing stored.          *)
LEMMA CohInit == Init => CohInv
<1> SUFFICES ASSUME Init PROVE CohInv
  OBVIOUS
<1>1. TypeInv
  BY TypeInit
<1>2. QED
  BY <1>1 DEF Init, CohInv, Coherent, Synced, StoreDurable

(* With one process, the invariant of the next state only needs the       *)
(* conjuncts about that process.                                           *)
LEMMA CohReduce ==
    ASSUME SingleProcess, NEW p \in Procs, TypeInv',
           (diskStat = 0 => disk = EmptyTable)', Coherent(p)', StoreDurable'
    PROVE  CohInv'
BY DEF SingleProcess, CohInv

(* Every step keeps CohInv when there is one process: a rename of store    *)
(* writes the process's own table, which is the file's, plus its entry.   *)
LEMMA CohStep ==
    ASSUME SingleProcess
    PROVE  CohInv /\ [Next]_vars => CohInv'
<1> SUFFICES ASSUME CohInv, [Next]_vars PROVE CohInv'
  OBVIOUS
<1> USE ConstantsAssumption
<1>1. TypeInv'
  BY TypeStep DEF CohInv
<1> DEFINE Same(p) == UNCHANGED <<mem[p], lastMod[p], disk, diskStat, storedKeys>>
<1>2. ASSUME NEW p \in Procs, Same(p), pc'[p] \in Synced => pc[p] \in Synced
      PROVE  CohInv'
  BY <1>1, <1>2, CohReduce DEF CohInv, Coherent, StoreDurable
<1>3. CASE Environment
  <2>1. \A p \in Procs : Same(p) /\ pc'[p] = pc[p]
    BY <1>3 DEF Environment, Tick, RewriteApk, DeleteApk, procVars
  <2>2. PICK p \in Procs : TRUE
    BY DEF ConstantsAssumption
  <2>3. QED
    BY <2>1, <2>2, <1>2
<1>4. ASSUME NEW p \in Procs, NEW a \in Apks, StatApk(p, a) \/ StatApkMissing(p, a)
      PROVE  CohInv'
  BY <1>4, <1>2 DEF StatApk, StatApkMissing, Synced, CohInv, TypeInv, TypeOK
<1>5. ASSUME NEW p \in Procs, UpdateCheck(p) PROVE CohInv'
  <2>1. CASE diskStat = 0 \/ lastMod[p] = diskStat
    <3>1. mem[p] = disk
      BY <2>1 DEF CohInv, Coherent
    <3>2. Coherent(p)'
      BY <3>1, <1>5 DEF UpdateCheck, Coherent
    <3>3. QED
      BY <3>2, <1>1, <1>5, CohReduce DEF UpdateCheck, CohInv, StoreDurable
  <2>2. CASE ~(diskStat = 0 \/ lastMod[p] = diskStat)
    <3>1. pc'[p] = "upd_read"
      BY <2>2, <1>5 DEF UpdateCheck, CohInv, TypeInv, TypeOK
    <3>2. QED
      BY <3>1, <1>5, <1>2 DEF UpdateCheck, Synced
  <2>3. QED
    BY <2>1, <2>2
<1>6. ASSUME NEW p \in Procs, UpdateRead(p) PROVE CohInv'
  <2>1. mem'[p] = disk'
    BY <1>6 DEF UpdateRead, CohInv, TypeInv, TypeOK
  <2>2. QED
    BY <2>1, <1>1, <1>6, CohReduce DEF UpdateRead, Coherent, CohInv, StoreDurable
<1>7. ASSUME NEW p \in Procs, UpdateStat(p) \/ StatAfterWrite(p) PROVE CohInv'
  <2>1. mem[p] = disk
    BY <1>7 DEF UpdateStat, StatAfterWrite, CohInv, Coherent, Synced
  <2>2. mem'[p] = disk' /\ UNCHANGED <<disk, diskStat, storedKeys>>
    BY <2>1, <1>7 DEF UpdateStat, StatAfterWrite
  <2>3. QED
    BY <2>2, <1>1, CohReduce DEF Coherent, CohInv, StoreDurable
<1>8. ASSUME NEW p \in Procs, LookupHit(p) \/ LookupMiss(p) \/ Extract(p)
                                \/ ExtractMissing(p)
      PROVE  CohInv'
  BY <1>8, <1>2 DEF LookupHit, LookupMiss, Extract, ExtractMissing, Synced,
     CohInv, TypeInv, TypeOK
<1>9. ASSUME NEW p \in Procs, Write(p) PROVE CohInv'
  <2> DEFINE table == [mem[p] EXCEPT ![callKey[p]] = newInfo[p]]
  <2>1. mem[p] = disk
    BY <1>9 DEF Write, CohInv, Coherent, Synced
  <2>2. disk' = table /\ mem'[p] = table
    BY <1>9 DEF Write, CohInv, TypeInv, TypeOK
  <2>3. diskStat' # 0
    BY <1>9 DEF Write, CohInv, TypeInv, TypeOK
  <2>4. Coherent(p)'
    BY <2>2 DEF Coherent
  <2>5. StoreDurable'
    <3>1. callKey[p] \in Keys /\ newInfo[p] \in Infos /\ disk \in Table
      BY DEF CohInv, TypeInv, TypeOK
    <3>2. newInfo[p] # Absent
      BY <3>1 DEF Infos, Versions
    <3>3. storedKeys' = storedKeys \cup {callKey[p]}
      BY <1>9 DEF Write
    <3>4. \A k \in storedKeys : disk[k] # Absent
      BY DEF CohInv, StoreDurable
    <3>5. QED
      BY <2>1, <2>2, <3>1, <3>2, <3>3, <3>4 DEF StoreDurable, Table
  <2>6. QED
    BY <1>1, <2>3, <2>4, <2>5, CohReduce
<1>10. ASSUME NEW p \in Procs, Restart(p) PROVE CohInv'
  <2>1. mem'[p] = EmptyTable /\ lastMod'[p] = NoStat /\ pc'[p] = "upd_check"
    BY <1>10 DEF Restart, CohInv, TypeInv, TypeOK
  <2>2. NoStat # diskStat
    BY DEF CohInv, TypeInv, TypeOK
  <2>3. Coherent(p)'
    BY <2>1, <2>2, <1>10 DEF Restart, Coherent, Synced, CohInv
  <2>4. QED
    BY <2>3, <1>1, <1>10, CohReduce DEF Restart, CohInv, StoreDurable
<1>11. CASE UNCHANGED vars
  <2>1. \A p \in Procs : Same(p) /\ pc'[p] = pc[p]
    BY <1>11 DEF vars, procVars
  <2>2. PICK p \in Procs : TRUE
    BY DEF ConstantsAssumption
  <2>3. QED
    BY <2>1, <2>2, <1>2
<1>12. QED
  BY <1>3, <1>4, <1>5, <1>6, <1>7, <1>8, <1>9, <1>10, <1>11
  DEF Next, Process

(* With one WA process (which may die and be replaced at any point), the  *)
(* reload test of _update_cache is sound and no persisted entry of store  *)
(* is ever lost, for every number of APKs and every bound.                 *)
THEOREM SingleProcessCoherent ==
    ASSUME SingleProcess
    PROVE  Spec => [](MemoryCoherent /\ StoreDurable)
<1>1. Init => CohInv
  BY CohInit
<1>2. CohInv /\ [Next]_vars => CohInv'
  BY CohStep
<1>3. CohInv => MemoryCoherent /\ StoreDurable
  BY DEF CohInv, Coherent, MemoryCoherent
<1>4. QED
  BY <1>1, <1>2, <1>3, PTL DEF Spec

(* The durability half on its own: with one process, an entry persisted by *)
(* the rename of store stays in the cache file forever.                    *)
THEOREM SingleProcessStoreDurable ==
    ASSUME SingleProcess
    PROVE  Spec => []StoreDurable
<1>1. Spec => [](MemoryCoherent /\ StoreDurable)
  BY SingleProcessCoherent
<1>2. QED
  BY <1>1, PTL
=============================================================================
