----------------------------- MODULE ApkMatchRace -----------------------------
(***************************************************************************)
(* ApkFile.match (wa/framework/resource.py 177-198) composed with the APK  *)
(* file it judges.  match calls get_cacheable_apk_info once inside every   *)
(* predicate it evaluates (uiauto always, then version, range, package and *)
(* abi when the parameter is set), so the APK can be rewritten between two *)
(* of those calls.                                                         *)
(*                                                                         *)
(* meta[c] is the metadata of the APK's c-th content; ver is the content   *)
(* the file has now.  A call of get_cacheable_apk_info is one step that    *)
(* returns the metadata of the current content: ApkInfoCache proves        *)
(* (FreshReturn) that the cache returns the content seen at its os.stat or *)
(* a newer one, and the current content is one of those.                   *)
(***************************************************************************)
EXTENDS ResourceMatch

CONSTANTS Pkg, Other, UiPkg, Arm, Pending

NumContents == 2

UiautoSet == {UiPkg}

(* Version strings "1" and "2", version code "7" (segments as in          *)
(* ResourceMatch: <<leading zeros, value>>).                              *)
V1 == << <<0, 1>> >>
V2 == << <<0, 2>> >>

Metas == [name : {V1, V2}, code : {<< <<0, 7>> >>},
          package : {Pkg, Other, UiPkg}, native : {{}, {Arm}}]

Requests ==
    [uiauto : BOOLEAN, version : {None, [str |-> V1]},
     minV : {None}, maxV : {None, V1}, variant : {None},
     package : {None, Pkg}, abi : {None, <<Arm>>}, exact : {FALSE}]

ApkPath == [dir |-> "d", base |-> <<"a">>]

VARIABLES meta, ver, res, todo, ok, verdict

vars == <<meta, ver, res, todo, ok, verdict>>

(* The predicates match evaluates for request r, in the order of lines    *)
(* 183-195; file_name_matches reads no metadata and is kept for its place; *)
(* no request here sets variant, so its re.error cannot arise.            *)
Checks(r) ==
    <<"uiauto">>
    \o (IF VersionGiven(r.version) THEN <<"version">> ELSE << >>)
    \o (IF Truthy(r.maxV) \/ Truthy(r.minV) THEN <<"range">> ELSE << >>)
    \o (IF Truthy(r.variant) THEN <<"variant">> ELSE << >>)
    \o (IF Truthy(r.package) THEN <<"package">> ELSE << >>)
    \o (IF Truthy(r.abi) THEN <<"abi">> ELSE << >>)

(* One predicate of match on the metadata its own call returned.          *)
Holds(c, r, info) ==
    CASE c = "uiauto"  -> UiautoTestMatches(info, r.uiauto)
      [] c = "version" -> ApkVersionMatches(info, r.version)
      [] c = "range"   -> ApkVersionMatchesRange(info, r.minV, r.maxV)
      [] c = "variant" -> FileNameMatches(ApkPath.base, r.variant)
      [] c = "package" -> PackageNameMatches(info, r.package)
      [] c = "abi"     -> ApkAbiMatches(info, r.abi, r.exact)

Init ==
    /\ meta \in [1..NumContents -> Metas]
    /\ ver = 1
    /\ res \in Requests
    /\ todo = Checks(res)
    /\ ok = TRUE
    /\ verdict = Pending

(* Lines 183-195: the next predicate runs, with get_cacheable_apk_info    *)
(* reading the APK as it is now; all are evaluated, none short-circuits.  *)
Predicate ==
    /\ todo # << >>
    /\ ok' = (ok /\ Holds(Head(todo), res, meta[ver]))
    /\ todo' = Tail(todo)
    /\ UNCHANGED <<meta, ver, res, verdict>>

(* Lines 196-198: the conjunction is returned.                             *)
Return ==
    /\ todo = << >>
    /\ verdict = Pending
    /\ verdict' = ok
    /\ UNCHANGED <<meta, ver, res, todo, ok>>

(* The environment: the APK is replaced by its next content.              *)
RewriteApk ==
    /\ ver < NumContents
    /\ ver' = ver + 1
    /\ UNCHANGED <<meta, res, todo, ok, verdict>>

Next == Predicate \/ Return \/ RewriteApk

Spec == Init /\ [][Next]_vars

-----------------------------------------------------------------------------
(* Spec 4.3: match is the conjunction of the predicates over the one      *)
(* metadata record of the file ("all are pure and cache-backed").  So its *)
(* verdict is ApkMatch of some content the APK had during the call.        *)
MatchJudgesOneContent ==
    verdict # Pending => \E c \in 1..ver : verdict = ApkMatch(res, ApkPath, meta[c])
=============================================================================
