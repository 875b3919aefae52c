---------------------------- MODULE ResourceMatch ----------------------------
(***************************************************************************)
(* The match predicates of wa/framework/resource.py: match_path of File,   *)
(* Executable, ReventFile and JarFile, ApkFile.match and the free         *)
(* predicate functions it combines (lines 84-198 and 310-421).             *)
(*                                                                         *)
(* Data: a file name is a sequence of characters (so that splitting on "." *)
(* and substring search are what they are in Python); a path is a record  *)
(* of a directory and a base name.  A version string is the sequence of   *)
(* its "."-separated numeric segments, a segment string being             *)
(* <<leading zeros, value>> ("07" is <<1, 7>>): equal strings are equal    *)
(* sequences, and version_tuple (wa.utils.types, outside this source tree; *)
(* modelled from spec 4.1) keeps the values; "" is << >>.  The metadata    *)
(* get_cacheable_apk_info returns is a record [name, code, package,        *)
(* native] or None.  Patterns for variant are regular expressions over    *)
(* characters among which "." and "(" are the only metacharacters.         *)
(***************************************************************************)
EXTENDS Naturals, Sequences, SequencesExt

CONSTANTS
    None,            \* Python None
    UiautoPackages   \* package names containing 'com.arm.wa.uiauto'

(* A numeric segment string of a version: <<leading zeros, value>>.       *)
Segment == Nat \X Nat

(* Python None is not a version string, nor a version or list parameter.  *)
ASSUME NoneAssumption ==
    None \notin Seq(Segment) \cup [str : Seq(Segment)] \cup [list : Seq(Seq(Segment))]

(* version_tuple (spec 4.1): the segments' integer values; None and ""    *)
(* give the empty tuple.                                                   *)
VersionTuple(v) == IF v = None THEN << >> ELSE [i \in DOMAIN v |-> v[i][2]]

(* The metacharacters of Python's re module.                               *)
ReMeta == {".", "^", "$", "*", "+", "?", "{", "}", "[", "]", "\\", "|", "(", ")"}

(* Python truth value of an optional string or list.                       *)
Truthy(v) == v # None /\ v # << >>

(* A version parameter is a string, [str |-> s], or a list, [list |-> l]. *)
(* list_or_string makes a one-element list of a string; the truth value   *)
(* is that of the string or of the list.                                   *)
ListOrString(v) == IF "str" \in DOMAIN v THEN <<v.str>> ELSE v.list

VersionGiven(v) ==
    v # None /\ (IF "str" \in DOMAIN v THEN v.str # << >> ELSE v.list # << >>)

(* Python's < on tuples: the first differing position decides; when one   *)
(* is a prefix of the other the shorter one is smaller.                    *)
PyTupleLess(a, b) ==
    LET d == {i \in 1..Len(a) : i <= Len(b) /\ a[i] # b[i]}
    IN  IF d = {} THEN Len(a) < Len(b) ELSE a[Min(d)] < b[Min(d)]

(* The parts of a base name split on ".", as str.split('.') gives them.   *)
SplitDots(s) ==
    LET cut == <<0>> \o SetToSortSeq({i \in DOMAIN s : s[i] = "."}, <)
                     \o <<Len(s) + 1>>
    IN  [k \in 1..Len(cut) - 1 |-> SubSeq(s, cut[k] + 1, cut[k + 1] - 1)]

-----------------------------------------------------------------------------
(* File.match_path, Executable.match_path, ReventFile.match_path and      *)
(* JarFile.match_path (Resource.match calls match_path).                   *)
FileMatch(res, path) == res.path = path

ExecutableMatch(res, path) == res.filename = path.base

ReventMatch(res, path) ==
    LET parts == SplitDots(path.base) IN
    IF Len(parts) > 2 THEN parts[1] = res.target /\ parts[2] = res.stage
                      ELSE parts[1] = res.stage

JarMatch(res, path) == TRUE

-----------------------------------------------------------------------------
(* Mutant: a requested version longer than the apk's is not rejected      *)
(* first, and only the apk's segments are compared.                        *)
LooseNoLengthCheck(config, apk) ==
    LET c == VersionTuple(config)
        a == VersionTuple(apk)
    IN  \A i \in 1..Len(c) : i <= Len(a) => c[i] = a[i]

(* loose_version_matching, lines 354-367.                                  *)
LooseVersionMatching(config, apk) ==
    LET c == VersionTuple(config)
        a == VersionTuple(apk)
    IN  /\ Len(a) >= Len(c)
        /\ \A i \in 1..Len(c) : c[i] = a[i]

(* range_version_matching, lines 334-351.                                  *)
RangeVersionMatching(apk, minV, maxV) ==
    /\ Truthy(apk)
    /\ Truthy(maxV) => ~PyTupleLess(VersionTuple(maxV), VersionTuple(apk))
    /\ Truthy(minV) => ~PyTupleLess(VersionTuple(apk), VersionTuple(minV))

(* Mutant: the requested version compared with the name and the code as  *)
(* version tuples, so that "07" equals "7".                                *)
ApkVersionCompareTuples(info, version) ==
    LET vs == ListOrString(version) IN
    \E i \in DOMAIN vs :
        /\ info # None
        /\ \/ VersionTuple(vs[i]) \in {VersionTuple(info.name), VersionTuple(info.code)}
           \/ LooseVersionMatching(vs[i], info.name)

(* apk_version_matches, lines 310-322.                                     *)
ApkVersionMatches(info, version) ==
    LET vs == ListOrString(version) IN
    \E i \in DOMAIN vs :
        /\ info # None
        /\ \/ vs[i] \in {info.name, info.code}
           \/ LooseVersionMatching(vs[i], info.name)

(* apk_version_matches_range, lines 325-331.                               *)
ApkVersionMatchesRange(info, minV, maxV) ==
    RangeVersionMatching(IF info = None THEN << >> ELSE info.name, minV, maxV)

(* `pattern in filename` (line 375).                                       *)
LiteralIn(base, pattern) ==
    \E i \in 0..Len(base) - Len(pattern) :
        SubSeq(base, i + 1, i + Len(pattern)) = pattern

(* re.search(pattern, filename) for patterns whose metacharacters are "." *)
(* (any character but a newline) and "(": a window of the name matches    *)
(* the pattern character by character.                                     *)
RegexSearch(pattern, base) ==
    \E i \in 0..Len(base) - Len(pattern) :
        \A j \in 1..Len(pattern) :
            IF pattern[j] = "." THEN base[i + j] # "\n" ELSE pattern[j] = base[i + j]

(* re.compile raises re.error: a "(" never closed.                         *)
RegexError(pattern) == \E j \in DOMAIN pattern : pattern[j] = "("

(* Mutant: the regular-expression branch of line 377 is left out.         *)
FileNameLiteralOnly(base, pattern) == LiteralIn(base, pattern)

(* file_name_matches, lines 370-379: a literal occurrence returns True at *)
(* once; otherwise re.search decides, when the pattern compiles.           *)
FileNameMatches(base, pattern) ==
    \/ LiteralIn(base, pattern)
    \/ ~RegexError(pattern) /\ RegexSearch(pattern, base)

(* file_name_matches raises re.error at line 377: no literal occurrence    *)
(* and a pattern that does not compile.                                     *)
FileNameRaises(base, pattern) ==
    ~LiteralIn(base, pattern) /\ RegexError(pattern)

(* uiauto_test_matches, lines 382-389.                                     *)
UiautoTestMatches(info, uiauto) ==
    /\ info # None
    /\ uiauto = (info.package \in UiautoPackages)

(* package_name_matches, lines 392-399.                                    *)
PackageNameMatches(info, package) ==
    info # None /\ info.package = package

(* Mutant: exact_abi ignored, any requested ABI accepted.                 *)
ApkAbiIgnoresExact(info, abis, exact) ==
    /\ info # None
    /\ \/ info.native = {}
       \/ \E i \in DOMAIN abis : abis[i] \in info.native

(* apk_abi_matches, lines 402-421; native_code as the set of its ABIs.    *)
(* ApkFile passes a list, which list_or_string returns as it is.          *)
ApkAbiMatches(info, abis, exact) ==
    /\ info # None
    /\ \/ info.native = {}
       \/ exact /\ abis[1] \in info.native
       \/ ~exact /\ \E i \in DOMAIN abis : abis[i] \in info.native

(* ApkFile.match, lines 177-198: every predicate whose parameter is set,   *)
(* and uiauto_test_matches always; info is what get_cacheable_apk_info     *)
(* returns for the path.                                                   *)
ApkMatch(res, path, info) ==
    /\ UiautoTestMatches(info, res.uiauto)
    /\ VersionGiven(res.version) => ApkVersionMatches(info, res.version)
    /\ Truthy(res.maxV) \/ Truthy(res.minV) =>
          ApkVersionMatchesRange(info, res.minV, res.maxV)
    /\ Truthy(res.variant) => FileNameMatches(path.base, res.variant)
    /\ Truthy(res.package) => PackageNameMatches(info, res.package)
    /\ Truthy(res.abi) => ApkAbiMatches(info, res.abi, res.exact)

(* ApkFile.match raises instead of returning: the variant is checked       *)
(* (line 189) and file_name_matches raises re.error.                       *)
MatchRaises(res, path) ==
    Truthy(res.variant) /\ FileNameRaises(path.base, res.variant)
=============================================================================
