--------------------------- MODULE VersionMatchCheck ---------------------------
(***************************************************************************)
(* Checks range_version_matching against the meaning spec 4.1 and 4.3    *)
(* give it, for every version of at most MaxLen segments with values      *)
(* 0..MaxSeg.  One evaluation per input: Init chooses the arguments,      *)
(* Evaluate computes the predicate once.                                   *)
(***************************************************************************)
EXTENDS ResourceMatch

CONSTANTS MaxSeg, MaxLen, Pending

Versions == UNION {[1..n -> 0..MaxSeg] : n \in 0..MaxLen}

VARIABLES apk, minV, maxV, inRange

vars == <<apk, minV, maxV, inRange>>

Init ==
    /\ apk \in Versions \cup {None}
    /\ minV \in Versions \cup {None}
    /\ maxV \in Versions \cup {None}
    /\ inRange = Pending

Evaluate ==
    /\ inRange = Pending
    /\ inRange' = RangeVersionMatching(apk, minV, maxV)
    /\ UNCHANGED <<apk, minV, maxV>>

Spec == Init /\ [][Evaluate]_vars

-----------------------------------------------------------------------------
(* Versions in the semantic order spec 4.1 asks tuple comparison to give: *)
(* missing trailing segments count as 0, so "2" and "2.0" are one version. *)
Padded(v, n) == [i \in 1..n |-> IF i <= Len(v) THEN v[i] ELSE 0]
SemanticLeq(a, b) ==
    LET n == IF Len(a) > Len(b) THEN Len(a) ELSE Len(b)
        x == Padded(a, n)
        y == Padded(b, n)
    IN  \/ x = y
        \/ \E i \in 1..n : SubSeq(x, 1, i - 1) = SubSeq(y, 1, i - 1) /\ x[i] < y[i]

(* Spec 4.3: range matching accepts iff the apk version is >= min_version *)
(* and <= max_version, where given, in semantic version order; an empty   *)
(* or missing apk version never matches.                                   *)
RangeMatchIsSemantic ==
    inRange # Pending =>
        (inRange <=> /\ Truthy(apk)
                     /\ Truthy(minV) => SemanticLeq(minV, apk)
                     /\ Truthy(maxV) => SemanticLeq(apk, maxV))
=============================================================================
