------------------------- MODULE ApkMatchCheck_proofs -------------------------
(***************************************************************************)
(* Proofs that ApkFile.match (ResourceMatch!ApkMatch) is the conjunction   *)
(* spec 4.3 describes (ApkMatchCheck!SpecApkMatch) for EVERY request, path *)
(* and metadata record, not only the small sets the apk_conj run          *)
(* enumerates, whenever match returns rather than raising re.error.  The *)
(* lemmas relate the code's predicates to the spec's wording:             *)
(* loose_version_matching is the prefix relation of version tuples,       *)
(* Python's tuple < is the complement of the lexicographic order, and the *)
(* `in` test of file_name_matches is the spec's "occurs in".               *)
(***************************************************************************)
EXTENDS ApkMatchCheck, NatFacts, SequenceTheorems, TLAPS

(* IsPrefix of SequencesExt, element by element.                           *)
LEMMA PrefixByElements ==
    ASSUME NEW S, NEW a \in Seq(S), NEW b \in Seq(S)
    PROVE  IsPrefix(a, b) <=> Len(a) <= Len(b) /\ \A i \in 1..Len(a) : a[i] = b[i]
<1>1. ASSUME Len(a) <= Len(b)
      PROVE  SubSeq(a, 1, Len(a)) = SubSeq(b, 1, Len(a))
               <=> \A i \in 1..Len(a) : a[i] = b[i]
  BY <1>1, SubSeqProperties, SeqEqual
<1> QED
  BY <1>1 DEF IsPrefix

(* version_tuple of a version string, or of None, is a tuple of naturals   *)
(* as long as the string has segments.                                     *)
LEMMA VersionTupleType ==
    ASSUME NEW v \in Seq(Segment) \cup {None}
    PROVE  /\ VersionTuple(v) \in Seq(Nat)
           /\ VersionTuple(v) = << >> <=> v \in {None, << >>}
<1>1. CASE v = None
  BY <1>1 DEF VersionTuple
<1>2. CASE v \in Seq(Segment)
  <2>1. v # None
    BY <1>2, NoneAssumption
  <2>2. VersionTuple(v) = [i \in 1..Len(v) |-> v[i][2]]
    BY <1>2, <2>1 DEF VersionTuple
  <2>3. VersionTuple(v) \in Seq(Nat)
    BY <1>2, <2>2 DEF Segment
  <2>4. Len(VersionTuple(v)) = Len(v)
    BY <1>2, <2>2, <2>3
  <2>5. VersionTuple(v) = << >> <=> v = << >>
    BY <1>2, <2>3, <2>4
  <2> QED
    BY <2>1, <2>3, <2>5
<1> QED
  BY <1>1, <1>2

(* loose_version_matching (resource.py 354-367) accepts exactly when the   *)
(* requested version tuple is a prefix of the apk's (an apk version of     *)
(* None reads as the empty tuple).                                         *)
LEMMA LooseIsPrefix ==
    ASSUME NEW c \in Seq(Segment), NEW a \in Seq(Segment) \cup {None}
    PROVE  LooseVersionMatching(c, a) <=> IsPrefix(VersionTuple(c), VersionTuple(a))
<1>1. VersionTuple(c) \in Seq(Nat) /\ VersionTuple(a) \in Seq(Nat)
  BY VersionTupleType
<1> QED
  BY <1>1, PrefixByElements DEF LooseVersionMatching

(* Two version tuples agree below position i exactly when their first      *)
(* i - 1 segments are equal.                                               *)
LEMMA AgreeBelow ==
    ASSUME NEW S, NEW a \in Seq(S), NEW b \in Seq(S),
           NEW i \in 1..Len(a), i <= Len(b)
    PROVE  SubSeq(a, 1, i - 1) = SubSeq(b, 1, i - 1)
             <=> \A j \in 1..i - 1 : a[j] = b[j]
BY SubSeqProperties, SeqEqual

(* range_version_matching (resource.py 334-351) rejects an apk version     *)
(* above max_version with Python's tuple <; not being below is being at   *)
(* or above in the lexicographic order spec 4.3 states, for all tuples.    *)
LEMMA TupleOrder ==
    ASSUME NEW a \in Seq(Nat), NEW b \in Seq(Nat)
    PROVE  ~PyTupleLess(b, a) <=> TupleLeq(a, b)
<1> DEFINE diff == {i \in 1..Len(b) : i <= Len(a) /\ b[i] # a[i]}
<1>1. PyTupleLess(b, a) = IF diff = {} THEN Len(b) < Len(a) ELSE b[Min(diff)] < a[Min(diff)]
  BY DEF PyTupleLess, diff
<1>2. CASE diff = {}
  <2>1. \A j \in 1..Len(a) : j <= Len(b) => a[j] = b[j]
    BY <1>2 DEF diff
  <2>2. IsPrefix(a, b) <=> Len(a) <= Len(b)
    BY <2>1, PrefixByElements
  <2>3. ~\E i \in 1..Len(a) : i <= Len(b) /\ a[i] < b[i]
    BY <2>1
  <2>4. TupleLeq(a, b) <=> Len(a) <= Len(b)
    BY <2>2, <2>3 DEF TupleLeq
  <2>5. PyTupleLess(b, a) <=> Len(b) < Len(a)
    BY <1>1, <1>2, Zenon
  <2>6. ~(Len(b) < Len(a)) <=> Len(a) <= Len(b)
    OBVIOUS
  <2> QED
    BY <2>4, <2>5, <2>6, Zenon
<1>3. CASE diff # {}
  <2>0. diff \in SUBSET Nat /\ diff # {}
    BY <1>3 DEF diff
  <2>1. PICK k \in Nat : k \in diff /\ k = Min(diff)
    BY <2>0, LeastNat
  <2>8. \A x \in diff : k <= x
    BY <2>0, <2>1, LeastNat
  <2>2. /\ k \in 1..Len(a) /\ k \in 1..Len(b) /\ a[k] # b[k]
        /\ \A x \in 1..Len(a) : x <= Len(b) /\ a[x] # b[x] => k <= x
    <3>1. k \in 1..Len(a) /\ k \in 1..Len(b) /\ a[k] # b[k]
      BY <2>1 DEF diff
    <3>2. \A x \in 1..Len(a) : x <= Len(b) /\ a[x] # b[x] => x \in diff
      BY DEF diff
    <3> QED
      BY <2>8, <3>1, <3>2
  <2>3. PyTupleLess(b, a) <=> b[k] < a[k]
    BY <1>1, <1>3, <2>1, Zenon
  <2>4. ~PyTupleLess(b, a) <=> a[k] < b[k]
    <3>1. ~(b[k] < a[k]) <=> a[k] < b[k]
      BY <2>2
    <3> QED
      BY <2>3, <3>1, Zenon
  <2>5. ~IsPrefix(a, b)
    BY <2>2, PrefixByElements
  <2>6. SubSeq(a, 1, k - 1) = SubSeq(b, 1, k - 1)
    <3>1. ASSUME NEW j \in 1..k - 1 PROVE a[j] = b[j]
      <4>1. j \in 1..Len(a) /\ j <= Len(b) /\ ~(k <= j)
        BY <2>2
      <4> QED
        BY <2>2, <4>1
    <3> QED
      BY <3>1, <2>2, AgreeBelow
  <2>7. ASSUME NEW i \in 1..Len(a), i <= Len(b),
               SubSeq(a, 1, i - 1) = SubSeq(b, 1, i - 1), a[i] < b[i]
        PROVE  i = k
    <3>1. \A j \in 1..i - 1 : a[j] = b[j]
      BY <2>7, AgreeBelow
    <3> QED
      BY <2>2, <2>7, <3>1
  <2> QED
    BY <2>2, <2>4, <2>5, <2>6, <2>7 DEF TupleLeq
<1> QED
  BY <1>2, <1>3

(* `pattern in filename` (resource.py 375) slides the pattern over the    *)
(* base name; that finds it exactly when the base name is some u \o p \o w, *)
(* the spec's "the pattern is a literal substring of the file name".       *)
LEMMA NameOccurs ==
    ASSUME NEW S, NEW s \in Seq(S), NEW p \in Seq(S)
    PROVE  LiteralIn(s, p) <=> Occurs(p, s)
<1> DEFINE Parts == {SubSeq(s, 1, k) : k \in 0..Len(s)}
                    \cup {SubSeq(s, k, Len(s)) : k \in 1..Len(s) + 1}
<1>1. Parts \subseteq Seq(S)
  <2>1. \A k \in 0..Len(s) : SubSeq(s, 1, k) \in Seq(S)
    BY SubSeqProperties
  <2>2. \A k \in 1..Len(s) + 1 : SubSeq(s, k, Len(s)) \in Seq(S)
    BY SubSeqProperties
  <2> QED
    BY <2>1, <2>2 DEF Parts
<1>2. ASSUME NEW i \in 0..Len(s) - Len(p),
             SubSeq(s, i + 1, i + Len(p)) = p
      PROVE  Occurs(p, s)
  <2>0. i \in 0..Len(s) /\ i + Len(p) \in i..Len(s)
        /\ i + Len(p) + 1 \in 1..Len(s) + 1
    BY Len(p) \in Nat
  <2>1. PICK u : u = SubSeq(s, 1, i)
    OBVIOUS
  <2>2. PICK w : w = SubSeq(s, i + Len(p) + 1, Len(s))
    OBVIOUS
  <2>3. u \in Parts /\ w \in Parts
    <3>1. \E k \in 0..Len(s) : u = SubSeq(s, 1, k)
      BY <2>0, <2>1
    <3>2. \E k \in 1..Len(s) + 1 : w = SubSeq(s, k, Len(s))
      BY <2>0, <2>2
    <3> QED
      BY <3>1, <3>2, Zenon DEF Parts
  <2>4. /\ u \in Seq(S) /\ Len(u) = i
        /\ w \in Seq(S) /\ Len(w) = Len(s) - i - Len(p)
    BY <2>0, <2>1, <2>2, SubSeqProperties
  <2>5. /\ \A j \in 1..i : u[j] = s[j]
        /\ \A j \in 1..Len(w) : w[j] = s[i + Len(p) + j]
        /\ \A j \in 1..Len(p) : p[j] = s[i + j]
    <3>1. \A j \in 1..i : u[j] = s[j]
      BY <2>0, <2>1, SubSeqProperties
    <3>2. \A j \in 1..Len(w) : w[j] = s[i + Len(p) + j]
      BY <2>0, <2>2, <2>4, SubSeqProperties
    <3>3. \A j \in 1..Len(p) : p[j] = s[i + j]
      BY <1>2, <2>0, SubSeqProperties
    <3> QED
      BY <3>1, <3>2, <3>3
  <2>6. PICK up : up = u \o p
    OBVIOUS
  <2>7. up \in Seq(S) /\ Len(up) = i + Len(p)
    BY <2>4, <2>6, ConcatProperties
  <2>8. \A j \in 1..i + Len(p) : up[j] = IF j <= i THEN u[j] ELSE p[j - i]
    BY <2>4, <2>6, ConcatProperties
  <2>9. /\ up \o w \in Seq(S) /\ Len(up \o w) = Len(up) + Len(w)
        /\ \A j \in 1..Len(up) + Len(w) :
              (up \o w)[j] = IF j <= Len(up) THEN up[j] ELSE w[j - Len(up)]
    <3>1. up \in Seq(S) /\ w \in Seq(S)
      BY <2>4, <2>7
    <3> QED
      BY <3>1, ConcatProperties, Zenon
  <2>10. Len(up) + Len(w) = Len(s) /\ Len(up) = i + Len(p)
    BY <2>4, <2>7
  <2>11. ASSUME NEW j \in 1..Len(s) PROVE (up \o w)[j] = s[j]
    <3>1. CASE j <= i
      <4>1. j \in 1..Len(up) + Len(w) /\ j <= Len(up) /\ j \in 1..i
        BY <2>10, <3>1
      <4>2. (up \o w)[j] = up[j] /\ up[j] = u[j]
        BY <2>8, <2>9, <4>1
      <4> QED
        BY <2>5, <4>1, <4>2
    <3>2. CASE i < j /\ j <= i + Len(p)
      <4>0. j \in 1..Len(up) + Len(w) /\ j <= Len(up)
        BY <2>10, <3>2
      <4>1. (up \o w)[j] = up[j]
        BY <2>9, <4>0
      <4>2. up[j] = p[j - i]
        BY <2>8, <3>2
      <4>3. j - i \in 1..Len(p) /\ i + (j - i) = j
        BY <3>2
      <4>4. p[j - i] = s[j]
        BY <2>5, <4>3
      <4> QED
        BY <4>1, <4>2, <4>4
    <3>3. CASE i + Len(p) < j
      <4>1. (up \o w)[j] = w[j - i - Len(p)] /\ j - i - Len(p) \in 1..Len(w)
        BY <2>4, <2>9, <2>10, <3>3
      <4> QED
        BY <2>5, <4>1
    <3>4. j <= i \/ (i < j /\ j <= i + Len(p)) \/ i + Len(p) < j
      OBVIOUS
    <3> QED
      BY <3>1, <3>2, <3>3, <3>4
  <2>12. up \o w = s
    BY <2>4, <2>9, <2>10, <2>11, SeqEqual
  <2>13. u \o p \o w = s
    BY <2>6, <2>12
  <2> QED
    BY <2>3, <2>13 DEF Occurs, Parts
<1>3. ASSUME NEW u \in Seq(S), NEW w \in Seq(S), u \o p \o w = s
      PROVE  LiteralIn(s, p)
  <2> DEFINE i == Len(u)
  <2>1. /\ Len(s) = i + Len(p) + Len(w)
        /\ \A j \in 1..Len(s) :
              s[j] = IF j <= i THEN u[j]
                     ELSE IF j <= i + Len(p) THEN p[j - i] ELSE w[j - i - Len(p)]
    <3>1. u \o p \in Seq(S) /\ Len(u \o p) = i + Len(p)
          /\ \A j \in 1..i + Len(p) : (u \o p)[j] = IF j <= i THEN u[j] ELSE p[j - i]
      BY ConcatProperties
    <3>2. Len((u \o p) \o w) = i + Len(p) + Len(w)
          /\ \A j \in 1..i + Len(p) + Len(w) :
                ((u \o p) \o w)[j] = IF j <= i + Len(p) THEN (u \o p)[j] ELSE w[j - i - Len(p)]
      BY <3>1, ConcatProperties
    <3> QED
      BY <1>3, <3>1, <3>2
  <2>2. i \in 0..Len(s) - Len(p)
    BY <2>1
  <2>3. SubSeq(s, i + 1, i + Len(p)) \in Seq(S)
        /\ Len(SubSeq(s, i + 1, i + Len(p))) = Len(p)
        /\ \A j \in 1..Len(p) : SubSeq(s, i + 1, i + Len(p))[j] = s[i + j]
    BY <2>1, SubSeqProperties
  <2>4. SubSeq(s, i + 1, i + Len(p)) = p
    BY <2>1, <2>3, SeqEqual
  <2> QED
    BY <2>2, <2>4 DEF LiteralIn
<1> QED
  BY <1>1, <1>2, <1>3 DEF LiteralIn, Occurs, Parts


-----------------------------------------------------------------------------
(* The version parameters match accepts: None, a version string, or a      *)
(* non-empty list of them.                                                 *)
VersionParams ==
    {None} \cup [str : Seq(Segment)] \cup [list : Seq(Seq(Segment)) \ {<< >>}]

(* The apk's version tuple as spec 4.3 reads it: None is the empty one.    *)
SpecVersion(m) == IF m = None \/ m.name = None THEN << >> ELSE VersionTuple(m.name)

(* apk_version_matches (resource.py 310-322), guarded as match guards it   *)
(* (`if self.version`), is the spec's version predicate: some requested   *)
(* version string equals the name or the code, or its tuple is a prefix   *)
(* of the name's.                                                          *)
LEMMA VersionConjunct ==
    ASSUME NEW r, NEW m, m # None, r.version \in VersionParams,
           m.name \in Seq(Segment) \cup {None}
    PROVE  (VersionGiven(r.version) => ApkVersionMatches(m, r.version))
             <=> (r.version # None =>
                    \E v \in IF "str" \in DOMAIN r.version THEN {r.version.str}
                             ELSE {r.version.list[i] : i \in DOMAIN r.version.list} :
                       v = m.name \/ v = m.code
                       \/ IsPrefix(VersionTuple(v), SpecVersion(m)))
<1>1. SpecVersion(m) = VersionTuple(m.name) /\ SpecVersion(m) \in Seq(Nat)
  <2>1. VersionTuple(None) = << >>
    BY DEF VersionTuple
  <2> QED
    BY <2>1, VersionTupleType DEF SpecVersion
<1>2. CASE r.version = None
  BY <1>2 DEF VersionGiven
<1>3. CASE r.version \in [str : Seq(Segment)]
  <2> DEFINE st == r.version.str
  <2>1. r.version # None /\ "str" \in DOMAIN r.version /\ st \in Seq(Segment)
        /\ ListOrString(r.version) = <<st>>
    BY <1>3, NoneAssumption DEF ListOrString
  <2>2. ApkVersionMatches(m, r.version)
          <=> st \in {m.name, m.code} \/ LooseVersionMatching(st, m.name)
    BY <2>1 DEF ApkVersionMatches
  <2>3. LooseVersionMatching(st, m.name) <=> IsPrefix(VersionTuple(st), SpecVersion(m))
    BY <1>1, <2>1, LooseIsPrefix
  <2>4. VersionGiven(r.version) <=> st # << >>
    BY <2>1 DEF VersionGiven
  <2>5. st = << >> => IsPrefix(VersionTuple(st), SpecVersion(m))
    <3>1. st = << >> => VersionTuple(st) = << >>
      BY <2>1, VersionTupleType
    <3> QED
      BY <1>1, <3>1 DEF IsPrefix
  <2> QED
    BY <2>1, <2>2, <2>3, <2>4, <2>5
<1>4. CASE r.version \in [list : Seq(Seq(Segment)) \ {<< >>}]
  <2> DEFINE l == r.version.list
  <2>1. r.version # None /\ "str" \notin DOMAIN r.version /\ l \in Seq(Seq(Segment))
        /\ l # << >> /\ ListOrString(r.version) = l
    BY <1>4, NoneAssumption DEF ListOrString
  <2>2. VersionGiven(r.version)
    BY <2>1 DEF VersionGiven
  <2>3. ApkVersionMatches(m, r.version)
          <=> \E i \in DOMAIN l :
                 l[i] \in {m.name, m.code} \/ LooseVersionMatching(l[i], m.name)
    BY <2>1 DEF ApkVersionMatches
  <2>4. \A i \in DOMAIN l :
          LooseVersionMatching(l[i], m.name)
            <=> IsPrefix(VersionTuple(l[i]), SpecVersion(m))
    BY <1>1, <2>1, LooseIsPrefix
  <2> QED
    BY <2>1, <2>2, <2>3, <2>4
<1> QED
  BY <1>2, <1>3, <1>4 DEF VersionParams

(* apk_version_matches_range (resource.py 325-351), guarded as match       *)
(* guards it, is the spec's range predicate: the apk has a version, at or  *)
(* above min_version and at or below max_version, as version tuples in    *)
(* lexicographic order.                                                    *)
LEMMA RangeConjunct ==
    ASSUME NEW r, NEW m, m # None,
           r.minV \in {None} \cup Seq(Segment), r.maxV \in {None} \cup Seq(Segment),
           m.name \in Seq(Segment) \cup {None}
    PROVE  (Truthy(r.maxV) \/ Truthy(r.minV) =>
                ApkVersionMatchesRange(m, r.minV, r.maxV))
             <=> (Supplied(r.minV) \/ Supplied(r.maxV) =>
                    /\ SpecVersion(m) # << >>
                    /\ Supplied(r.minV) => TupleLeq(VersionTuple(r.minV), SpecVersion(m))
                    /\ Supplied(r.maxV) => TupleLeq(SpecVersion(m), VersionTuple(r.maxV)))
<1> DEFINE sv == SpecVersion(m)
<1>1. /\ sv = VersionTuple(m.name) /\ sv \in Seq(Nat)
      /\ sv = << >> <=> m.name \in {None, << >>}
  <2>1. VersionTuple(None) = << >>
    BY DEF VersionTuple
  <2> QED
    BY <2>1, VersionTupleType DEF SpecVersion
<1>2. ApkVersionMatchesRange(m, r.minV, r.maxV)
        = RangeVersionMatching(m.name, r.minV, r.maxV)
  BY DEF ApkVersionMatchesRange
<1>3. Truthy(m.name) <=> sv # << >>
  BY <1>1 DEF Truthy
<1>4. /\ Truthy(r.minV) <=> Supplied(r.minV)
      /\ Truthy(r.maxV) <=> Supplied(r.maxV)
  BY DEF Truthy, Supplied
<1>5. ASSUME Truthy(r.maxV)
      PROVE  ~PyTupleLess(VersionTuple(r.maxV), VersionTuple(m.name))
               <=> TupleLeq(sv, VersionTuple(r.maxV))
  <2>1. VersionTuple(r.maxV) \in Seq(Nat)
    BY VersionTupleType
  <2> QED
    BY <1>1, <2>1, TupleOrder
<1>6. ASSUME Truthy(r.minV)
      PROVE  ~PyTupleLess(VersionTuple(m.name), VersionTuple(r.minV))
               <=> TupleLeq(VersionTuple(r.minV), sv)
  <2>1. VersionTuple(r.minV) \in Seq(Nat)
    BY VersionTupleType
  <2> QED
    BY <1>1, <2>1, TupleOrder
<1> QED
  BY <1>2, <1>3, <1>4, <1>5, <1>6, Zenon DEF RangeVersionMatching

(* file_name_matches (resource.py 370-379), guarded as match guards it,   *)
(* is the spec's variant predicate whenever it returns: the pattern is a  *)
(* literal substring of the base name or re.search finds it.               *)
LEMMA VariantConjunct ==
    ASSUME NEW Chars, NEW r, NEW p,
           r.variant \in {None} \cup Seq(Chars), p.base \in Seq(Chars),
           ~MatchRaises(r, p)
    PROVE  (Truthy(r.variant) => FileNameMatches(p.base, r.variant))
             <=> (Supplied(r.variant) =>
                    Occurs(r.variant, p.base) \/ RegexSearch(r.variant, p.base))
<1>1. Truthy(r.variant) <=> Supplied(r.variant)
  BY DEF Truthy, Supplied
<1>2. ASSUME Truthy(r.variant)
      PROVE  FileNameMatches(p.base, r.variant)
               <=> Occurs(r.variant, p.base) \/ RegexSearch(r.variant, p.base)
  <2>1. r.variant \in Seq(Chars)
    BY <1>2 DEF Truthy
  <2>2. LiteralIn(p.base, r.variant) <=> Occurs(r.variant, p.base)
    BY <2>1, NameOccurs
  <2>3. ~LiteralIn(p.base, r.variant) => ~RegexError(r.variant)
    BY <1>2 DEF MatchRaises, FileNameRaises
  <2> QED
    BY <2>2, <2>3 DEF FileNameMatches
<1> QED
  BY <1>1, <1>2

(* ApkFile.match (resource.py 177-198), whenever it returns, IS the       *)
(* conjunction spec 4.3 describes, for every request of numeric version   *)
(* strings, every variant and file name over an alphabet whose only       *)
(* regular-expression metacharacters are "." and "(" (the ones RegexSearch *)
(* and RegexError give Python's meaning), and every metadata record       *)
(* get_cacheable_apk_info may return: the code's guards (`if self.version`, *)
(* `if self.max_version or ...`) skip exactly the predicates the spec     *)
(* calls unsupplied.  When it does not return, it raised re.error (run    *)
(* apk_match_regex).                                                       *)
THEOREM MatchMeetsSpec ==
    ASSUME NEW Chars, Chars \cap ReMeta \subseteq {".", "("},
           NEW r, NEW p, NEW m,
           r.version \in VersionParams,
           r.minV \in {None} \cup Seq(Segment), r.maxV \in {None} \cup Seq(Segment),
           r.variant \in {None} \cup Seq(Chars), p.base \in Seq(Chars),
           m # None => m.name \in Seq(Segment) \cup {None},
           ~MatchRaises(r, p)
    PROVE  ApkMatch(r, p, m) <=> SpecApkMatch(r, p, m)
<1>1. CASE m = None
  BY <1>1 DEF ApkMatch, UiautoTestMatches, SpecApkMatch
<1>2. CASE m # None
  <2>1. UiautoTestMatches(m, r.uiauto) <=> r.uiauto = (m.package \in UiautoPackages)
    BY <1>2 DEF UiautoTestMatches
  <2>2. (VersionGiven(r.version) => ApkVersionMatches(m, r.version))
          <=> (r.version # None =>
                 \E v \in IF "str" \in DOMAIN r.version THEN {r.version.str}
                          ELSE {r.version.list[i] : i \in DOMAIN r.version.list} :
                    v = m.name \/ v = m.code
                    \/ IsPrefix(VersionTuple(v), SpecVersion(m)))
    BY <1>2, VersionConjunct
  <2>3. (Truthy(r.maxV) \/ Truthy(r.minV) => ApkVersionMatchesRange(m, r.minV, r.maxV))
          <=> (Supplied(r.minV) \/ Supplied(r.maxV) =>
                 /\ SpecVersion(m) # << >>
                 /\ Supplied(r.minV) => TupleLeq(VersionTuple(r.minV), SpecVersion(m))
                 /\ Supplied(r.maxV) => TupleLeq(SpecVersion(m), VersionTuple(r.maxV)))
    BY <1>2, RangeConjunct
  <2>4. (Truthy(r.variant) => FileNameMatches(p.base, r.variant))
          <=> (Supplied(r.variant) =>
                 Occurs(r.variant, p.base) \/ RegexSearch(r.variant, p.base))
    BY VariantConjunct
  <2>5. (Truthy(r.package) => PackageNameMatches(m, r.package))
          <=> (Supplied(r.package) => m.package = r.package)
    BY <1>2 DEF Truthy, Supplied, PackageNameMatches
  <2>6. (Truthy(r.abi) => ApkAbiMatches(m, r.abi, r.exact))
          <=> (Supplied(r.abi) =>
                 \/ m.native = {}
                 \/ IF r.exact THEN r.abi[1] \in m.native
                    ELSE \E i \in DOMAIN r.abi : r.abi[i] \in m.native)
    BY <1>2 DEF Truthy, Supplied, ApkAbiMatches
  <2> QED
    BY <1>2, <2>1, <2>2, <2>3, <2>4, <2>5, <2>6, Zenon
       DEF ApkMatch, SpecApkMatch, SpecVersion
<1> QED
  BY <1>1, <1>2

-----------------------------------------------------------------------------
(* The characters of the file names and variants the runs use.            *)
RunChars == {"a", ".", "b", "("}

(* The apk_match run's state: the call's arguments stay in the sets Init   *)
(* chose them from, and the verdict, once given, is the spec's.            *)
ConjInv ==
    /\ res \in Requests /\ path \in Paths /\ info \in Infos
    /\ ApkMatchIsConjunction

(* Every request, path and metadata record the run enumerates lies in the  *)
(* domain of MatchMeetsSpec.                                               *)
LEMMA RunInputsCovered ==
    ASSUME NEW r \in Requests, NEW p \in Paths, NEW m \in Infos
    PROVE  /\ RunChars \cap ReMeta \subseteq {".", "("}
           /\ r.version \in VersionParams
           /\ r.minV \in {None} \cup Seq(Segment) /\ r.maxV \in {None} \cup Seq(Segment)
           /\ r.variant \in {None} \cup Seq(RunChars) /\ p.base \in Seq(RunChars)
           /\ m # None => m.name \in Seq(Segment) \cup {None}
<1>0. RunChars \cap ReMeta \subseteq {".", "("}
  BY DEF RunChars, ReMeta
<1>1. /\ Vers \subseteq Seq(Segment) /\ Code \in Seq(Segment) /\ Code07 \in Seq(Segment)
      /\ V1 \in Seq(Segment) /\ V10 \in Seq(Segment) /\ V2 \in Seq(Segment)
  BY DEF Vers, Code, Code07, V1, V10, V2, Segment
<1>2. r.version \in VersionParams
  <2>1. r.version \in {None, [str |-> V1], [list |-> <<Code07, V2>>]}
    BY DEF Requests
  <2>2. [str |-> V1] \in [str : Seq(Segment)]
    BY <1>1
  <2>3. [list |-> <<Code07, V2>>] \in [list : Seq(Seq(Segment)) \ {<< >>}]
    BY <1>1
  <2> QED
    BY <2>1, <2>2, <2>3 DEF VersionParams
<1>3. m # None => m.name \in Seq(Segment) \cup {None}
  BY <1>1 DEF Infos
<1>4. /\ r.minV \in {None, V1} /\ r.maxV \in {None, V10}
      /\ r.variant \in {None, <<"a", ".">>, <<"(">>}
  BY DEF Requests
<1>5. p.base \in {<<"a", ".", "b">>, <<"a", "b">>, <<"b">>}
  BY DEF Paths
<1>6. /\ <<"a", ".">> \in Seq(RunChars) /\ <<"(">> \in Seq(RunChars)
      /\ <<"a", "b">> \in Seq(RunChars) /\ <<"b">> \in Seq(RunChars)
      /\ <<"a", ".", "b">> \in Seq(RunChars)
  BY DEF RunChars
<1>7. r.minV \in {None} \cup Seq(Segment) /\ r.maxV \in {None} \cup Seq(Segment)
  BY <1>1, <1>4
<1>8. r.variant \in {None} \cup Seq(RunChars) /\ p.base \in Seq(RunChars)
  BY <1>4, <1>5, <1>6
<1> QED
  BY <1>0, <1>2, <1>3, <1>7, <1>8

(* ApkFile.match, as the apk_match run evaluates it, gives the verdict     *)
(* spec 4.3 asks for whenever it returns one (the invariant               *)
(* ApkMatchIsConjunction), for the run's inputs and, through              *)
(* MatchMeetsSpec, for all others of their shape.                          *)
THEOREM ConjunctionHolds == Spec => []ApkMatchIsConjunction
<1>1. Init => ConjInv
  BY DEF Init, ConjInv, ApkMatchIsConjunction
<1>2. ConjInv /\ [Evaluate]_vars => ConjInv'
  <2> SUFFICES ASSUME ConjInv, [Evaluate]_vars PROVE ConjInv'
    OBVIOUS
  <2>1. CASE Evaluate /\ MatchRaises(res, path)
    <3>1. res' = res /\ path' = path /\ info' = info /\ verdict' = Raised
      BY <2>1 DEF Evaluate
    <3> QED
      BY <3>1 DEF ConjInv, ApkMatchIsConjunction
  <2>2. CASE Evaluate /\ ~MatchRaises(res, path)
    <3>1. res' = res /\ path' = path /\ info' = info
          /\ verdict' = ApkMatch(res, path, info)
      BY <2>2 DEF Evaluate
    <3>2. ApkMatch(res, path, info) <=> SpecApkMatch(res, path, info)
      <4>1. /\ RunChars \cap ReMeta \subseteq {".", "("}
            /\ res.version \in VersionParams
            /\ res.minV \in {None} \cup Seq(Segment)
            /\ res.maxV \in {None} \cup Seq(Segment)
            /\ res.variant \in {None} \cup Seq(RunChars) /\ path.base \in Seq(RunChars)
            /\ info # None => info.name \in Seq(Segment) \cup {None}
        BY RunInputsCovered DEF ConjInv
      <4> QED
        BY <4>1, <2>2, MatchMeetsSpec
    <3>3. ApkMatch(res, path, info) \in BOOLEAN
      BY DEF ApkMatch
    <3> QED
      BY <3>1, <3>2, <3>3 DEF ConjInv, ApkMatchIsConjunction
  <2>3. CASE UNCHANGED vars
    BY <2>3 DEF ConjInv, ApkMatchIsConjunction, vars
  <2> QED
    BY <2>1, <2>2, <2>3
<1>3. ConjInv => ApkMatchIsConjunction
  BY DEF ConjInv
<1> QED
  BY <1>1, <1>2, <1>3, PTL DEF Spec
=============================================================================
