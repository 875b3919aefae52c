---------------------------- MODULE ApkMatchCheck ----------------------------
(***************************************************************************)
(* Checks ApkFile.match against spec 4.3, for every ApkFile request and    *)
(* metadata record over small sets: Init chooses the request, the path    *)
(* and what get_cacheable_apk_info returns for it; Evaluate runs match,    *)
(* which returns a verdict or raises (Raised).                             *)
(***************************************************************************)
EXTENDS ResourceMatch

CONSTANTS Pkg, UiPkg, Arm, X86, Pending, Raised

(* Version strings "1", "1.0", "2", "" and the version code "7", "07".   *)
V1 == << <<0, 1>> >>
V10 == << <<0, 1>>, <<0, 0>> >>
V2 == << <<0, 2>> >>
Vers == {<< >>, V1, V10, V2}
Code == << <<0, 7>> >>
Code07 == << <<1, 7>> >>
UiautoSet == {UiPkg}

Infos ==
    {None} \cup [name : Vers \cup {None}, code : {Code},
                 package : {Pkg, UiPkg, None}, native : {{}, {Arm}, {Arm, X86}}]

Requests ==
    [uiauto : BOOLEAN,
     version : {None, [str |-> V1], [list |-> <<Code07, V2>>]},
     minV : {None, V1}, maxV : {None, V10},
     variant : {None, <<"a", ".">>, <<"(">>}, package : {None, Pkg},
     abi : {None, <<X86, Arm>>}, exact : BOOLEAN]

Paths == [dir : {"d"}, base : {<<"a", ".", "b">>, <<"a", "b">>, <<"b">>}]

VARIABLES res, path, info, verdict

vars == <<res, path, info, verdict>>

Init ==
    /\ res \in Requests /\ path \in Paths /\ info \in Infos
    /\ verdict = Pending

Evaluate ==
    /\ verdict = Pending
    /\ verdict' = IF MatchRaises(res, path) THEN Raised ELSE ApkMatch(res, path, info)
    /\ UNCHANGED <<res, path, info>>

Spec == Init /\ [][Evaluate]_vars

-----------------------------------------------------------------------------
(* Spec 4.3, written from its text: versions equal as strings, or the     *)
(* requested version tuple a prefix of the apk's; ranges compared as      *)
(* version tuples, ordered lexicographically; a pattern occurs in the     *)
(* base name or matches as a regular expression (re.search); the ABI      *)
(* check looks at the first requested ABI only when exact_abi; no         *)
(* metadata satisfies no metadata predicate.                               *)
TupleLeq(a, b) ==
    \/ IsPrefix(a, b)
    \/ \E i \in 1..Len(a) :
          i <= Len(b) /\ SubSeq(a, 1, i - 1) = SubSeq(b, 1, i - 1) /\ a[i] < b[i]

Occurs(p, s) == \E u, w \in {SubSeq(s, 1, k) : k \in 0..Len(s)}
                         \cup {SubSeq(s, k, Len(s)) : k \in 1..Len(s) + 1} :
                    u \o p \o w = s

(* Requests never hold an empty version string or list, so a version is   *)
(* supplied when it is not None.                                           *)
Supplied(v) == v \notin {None, << >>}

SpecApkMatch(r, p, m) ==
    LET versions == IF "str" \in DOMAIN r.version THEN {r.version.str}
                    ELSE {r.version.list[i] : i \in DOMAIN r.version.list}
        mver == IF m = None \/ m.name = None THEN << >> ELSE VersionTuple(m.name)
    IN
    /\ m # None
    /\ r.uiauto = (m.package \in UiautoPackages)
    /\ r.version # None =>
          \E v \in versions :
              v = m.name \/ v = m.code \/ IsPrefix(VersionTuple(v), mver)
    /\ Supplied(r.minV) \/ Supplied(r.maxV) =>
          /\ mver # << >>
          /\ Supplied(r.minV) => TupleLeq(VersionTuple(r.minV), mver)
          /\ Supplied(r.maxV) => TupleLeq(mver, VersionTuple(r.maxV))
    /\ Supplied(r.variant) =>
          Occurs(r.variant, p.base) \/ RegexSearch(r.variant, p.base)
    /\ Supplied(r.package) => m.package = r.package
    /\ Supplied(r.abi) =>
          \/ m.native = {}
          \/ IF r.exact THEN r.abi[1] \in m.native
             ELSE \E i \in DOMAIN r.abi : r.abi[i] \in m.native

(* ApkFile.match, whenever it returns, returns the conjunction spec 4.3   *)
(* describes: each predicate of a supplied parameter, with the string     *)
(* equality and loose prefix rules for versions, the tuple order for      *)
(* ranges, the literal-or-regex rule for variants, the exact_abi rule and  *)
(* no match when the apk's metadata cannot be read.                        *)
ApkMatchIsConjunction ==
    verdict \notin {Pending, Raised} => (verdict <=> SpecApkMatch(res, path, info))

(* ApkFile.match never raises: spec 4.3 makes its predicates pure          *)
(* functions that accept or reject, and spec 6 lets no failure but        *)
(* "not found" cross the resolver's boundary, which a source calling      *)
(* match would carry it across.                                             *)
MatchNeverRaises == verdict # Raised
=============================================================================
