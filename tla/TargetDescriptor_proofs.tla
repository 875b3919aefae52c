------------------------ MODULE TargetDescriptor_proofs ------------------------
(***************************************************************************)
(* Proofs about the target-description lookup of TargetDescriptor: as    *)
(* long as no ad hoc description takes the name of a default one, every  *)
(* known target can be shown, whatever names, plugins and bounds.          *)
(***************************************************************************)
EXTENDS TargetDescriptor, SequenceTheorems, TLAPS

(* A sequence with no repeated element followed by another, with no       *)
(* element in common, has no repeated element and holds all of both.       *)
LEMMA ConcatDistinct ==
    ASSUME NEW S, NEW s \in Seq(S), NEW t \in Seq(S),
           IsInjective(s), IsInjective(t),
           \A i \in DOMAIN s, j \in DOMAIN t : s[i] # t[j]
    PROVE  /\ ~\E i, j \in DOMAIN (s \o t) : i < j /\ (s \o t)[i] = (s \o t)[j]
           /\ \A x \in Range(s) \cup Range(t) : \E i \in DOMAIN (s \o t) : (s \o t)[i] = x
<1>1. PICK u : u = s \o t
  OBVIOUS
<1>2. /\ u \in Seq(S) /\ Len(u) = Len(s) + Len(t)
      /\ \A i \in 1 .. Len(s) + Len(t) : u[i] = IF i <= Len(s) THEN s[i] ELSE t[i - Len(s)]
  BY <1>1, ConcatProperties
<1>3. DOMAIN u = 1 .. Len(s) + Len(t)
  BY <1>2
<1>4. ~\E i, j \in DOMAIN u : i < j /\ u[i] = u[j]
  <2> SUFFICES ASSUME NEW i \in DOMAIN u, NEW j \in DOMAIN u, i < j, u[i] = u[j]
               PROVE  FALSE
    OBVIOUS
  <2>1. CASE j <= Len(s)
    BY <1>2, <1>3, <2>1 DEF IsInjective
  <2>2. CASE i <= Len(s) /\ j > Len(s)
    BY <1>2, <1>3, <2>2
  <2>3. CASE i > Len(s)
    <3>1. i - Len(s) \in DOMAIN t /\ j - Len(s) \in DOMAIN t /\ i - Len(s) # j - Len(s)
      BY <1>3, <2>3
    <3>2. t[i - Len(s)] = t[j - Len(s)]
      BY <1>2, <1>3, <2>3
    <3> QED
      BY <3>1, <3>2 DEF IsInjective
  <2> QED
    BY <1>3, <2>1, <2>2, <2>3
<1>5. \A x \in Range(s) \cup Range(t) : \E i \in DOMAIN u : u[i] = x
  <2> SUFFICES ASSUME NEW x \in Range(s) \cup Range(t)
               PROVE  \E i \in DOMAIN u : u[i] = x
    OBVIOUS
  <2>1. CASE x \in Range(s)
    <3>1. PICK k \in DOMAIN s : s[k] = x
      BY <2>1 DEF Range
    <3>2. k \in DOMAIN u /\ u[k] = x
      BY <3>1, <1>2, <1>3
    <3> QED
      BY <3>2
  <2>2. CASE x \in Range(t)
    <3>1. PICK k \in DOMAIN t : t[k] = x
      BY <2>2 DEF Range
    <3>2. Len(s) + k \in DOMAIN u /\ u[Len(s) + k] = x
      BY <3>1, <1>2, <1>3
    <3> QED
      BY <3>2
  <2> QED
    BY <2>1, <2>2
<1> QED
  BY <1>1, <1>4, <1>5

(* Appending an element that is not in a repetition-free sequence keeps  *)
(* it repetition-free.                                                     *)
LEMMA AppendDistinct ==
    ASSUME NEW S, NEW s \in Seq(S), NEW e \in S, IsInjective(s),
           \A i \in DOMAIN s : s[i] # e
    PROVE  Append(s, e) \in Seq(S) /\ IsInjective(Append(s, e))
<1>1. /\ Append(s, e) \in Seq(S) /\ Len(Append(s, e)) = Len(s) + 1
      /\ \A i \in 1 .. Len(s) : Append(s, e)[i] = s[i]
      /\ Append(s, e)[Len(s) + 1] = e
  BY AppendProperties
<1> QED
  BY <1>1 DEF IsInjective

-----------------------------------------------------------------------------
(* The names DefaultTargetDescriptor.get_descriptions returns.             *)
DefaultList == [i \in DOMAIN DefaultDescriptions |-> DefaultDescriptions[i].name]

(* The inductive invariant: the ad hoc list holds created names without   *)
(* repetition (create_target_description refuses a name it already has,   *)
(* lines 824-827), the defaults are the tables', and show finds targets.   *)
IInv ==
    /\ adhoc \in Seq(AdhocNames) /\ IsInjective(adhoc)
    /\ defaults = DefaultList
    /\ ShowFindsTargets

(* When no ad hoc name is a default name, list_target_descriptions never  *)
(* raises, in either loader order, and lists every default and every     *)
(* created description.                                                    *)
LEMMA ListingComplete ==
    ASSUME AdhocNames \cap DefaultNames = {}, IInv,
           NEW o \in DescriptorOrders
    PROVE  /\ ~ListingFails(o)
           /\ \A x \in DefaultSet \cup Range(adhoc) :
                 \E i \in DOMAIN Merged(o) : Merged(o)[i] = x
<1>1. defaults \in Seq(DefaultNames) /\ IsInjective(defaults)
  BY DefaultNamesDistinct DEF IInv, DefaultList
<1>2. \A i \in DOMAIN defaults, j \in DOMAIN adhoc : defaults[i] # adhoc[j]
  BY <1>1 DEF IInv
<1>3. DefaultSet = Range(defaults)
  BY DEF DefaultSet, Range
<1>4. adhoc \in Seq(DefaultNames \cup AdhocNames)
      /\ defaults \in Seq(DefaultNames \cup AdhocNames)
  BY <1>1 DEF IInv
<1>5. CASE o = <<"default", "adhoc">>
  <2>1. Merged(o) = defaults \o adhoc
    BY <1>5 DEF Merged
  <2>2. /\ ~\E i, j \in DOMAIN (defaults \o adhoc) :
              i < j /\ (defaults \o adhoc)[i] = (defaults \o adhoc)[j]
        /\ \A x \in Range(defaults) \cup Range(adhoc) :
              \E i \in DOMAIN (defaults \o adhoc) : (defaults \o adhoc)[i] = x
    BY <1>1, <1>2, <1>4, ConcatDistinct DEF IInv
  <2> QED
    BY <2>1, <2>2, <1>3 DEF ListingFails
<1>6. CASE o = <<"adhoc", "default">>
  <2>1. Merged(o) = adhoc \o defaults
    BY <1>6 DEF Merged
  <2>2. \A i \in DOMAIN adhoc, j \in DOMAIN defaults : adhoc[i] # defaults[j]
    BY <1>2
  <2>3. /\ ~\E i, j \in DOMAIN (adhoc \o defaults) :
              i < j /\ (adhoc \o defaults)[i] = (adhoc \o defaults)[j]
        /\ \A x \in Range(adhoc) \cup Range(defaults) :
              \E i \in DOMAIN (adhoc \o defaults) : (adhoc \o defaults)[i] = x
    BY <2>2, <1>1, <1>4, ConcatDistinct DEF IInv
  <2> QED
    BY <2>1, <2>3, <1>3 DEF ListingFails
<1> QED
  BY <1>5, <1>6 DEF DescriptorOrders

(* create_target_description keeps the ad hoc list free of repetitions:   *)
(* a name equal to a created one is caselessly equal to it and refused.    *)
LEMMA CreateKeepsDistinct ==
    ASSUME IInv, NEW n \in AdhocNames, CreateTargetDescription(n)
    PROVE  adhoc' \in Seq(AdhocNames) /\ IsInjective(adhoc')
<1>1. CASE \E i \in DOMAIN adhoc : Caseless(n) = Caseless(adhoc[i])
  BY <1>1 DEF CreateTargetDescription, IInv
<1>2. CASE ~\E i \in DOMAIN adhoc : Caseless(n) = Caseless(adhoc[i])
  <2>1. adhoc' = Append(adhoc, n)
    BY <1>2 DEF CreateTargetDescription
  <2>2. \A i \in DOMAIN adhoc : adhoc[i] # n
    BY <1>2
  <2> QED
    BY <2>1, <2>2, AppendDistinct DEF IInv
<1> QED
  BY <1>1, <1>2

(* `wa show <name>` finds every default description and every created   *)
(* one that is neither a plugin nor "settings" (ShowCommand.execute and   *)
(* list_target_descriptions), for every set of names, plugins and bound,  *)
(* provided no ad hoc description was given a default's name: with such  *)
(* a name every listing raises (run descriptor_clash).                    *)
THEOREM ShowFindsTargetsHolds ==
    ASSUME AdhocNames \cap DefaultNames = {}
    PROVE  Spec => []ShowFindsTargets
<1>1. Init => IInv
  <2> SUFFICES ASSUME Init PROVE IInv
    OBVIOUS
  <2>1. adhoc = << >> /\ last.op = "none" /\ defaults = DefaultList
    BY DEF Init, DefaultList
  <2>2. << >> \in Seq(AdhocNames) /\ IsInjective(<< >>)
    BY DEF IsInjective
  <2> QED
    BY <2>1, <2>2 DEF IInv, ShowFindsTargets
<1>2. IInv /\ [Next]_vars => IInv'
  <2> SUFFICES ASSUME IInv, [Next]_vars PROVE IInv'
    OBVIOUS
  <2>1. ASSUME NEW n \in AdhocNames, CreateTargetDescription(n) PROVE IInv'
    <3>1. adhoc' \in Seq(AdhocNames) /\ IsInjective(adhoc')
      BY <2>1, CreateKeepsDistinct
    <3>2. defaults' = defaults /\ last'.op = "create"
      BY <2>1 DEF CreateTargetDescription
    <3> QED
      BY <3>1, <3>2 DEF IInv, ShowFindsTargets
  <2>2. ASSUME NEW o \in DescriptorOrders, ListTargetDescriptions(o) PROVE IInv'
    BY <2>2 DEF ListTargetDescriptions, IInv, ShowFindsTargets
  <2>3. ASSUME NEW o \in DescriptorOrders, NEW n,
               GetTargetDescription(n, o) PROVE IInv'
    BY <2>3 DEF GetTargetDescription, IInv, ShowFindsTargets
  <2>4. ASSUME NEW o \in DescriptorOrders, NEW n, Show(n, o) PROVE IInv'
    <3>1. UNCHANGED <<adhoc, defaults>> /\ last'.op = "show" /\ last'.arg = n
      BY <2>4 DEF Show
    <3>2. ~ListingFails(o)
          /\ \A x \in DefaultSet \cup Range(adhoc) :
                \E i \in DOMAIN Merged(o) : Merged(o)[i] = x
      BY ListingComplete
    <3>3. SUFFICES ASSUME n \notin PluginNames, Caseless(n) # "settings",
                         n \in DefaultSet \/ \E i \in DOMAIN adhoc : adhoc[i] = n
                  PROVE  last'.out = "target"
      BY <3>1 DEF IInv, ShowFindsTargets, DefaultSet
    <3>4. \E i \in DOMAIN Merged(o) : Merged(o)[i] = n
      BY <3>2, <3>3 DEF Range
    <3> QED
      BY <2>4, <3>2, <3>3, <3>4 DEF Show
  <2>5. CASE UNCHANGED vars
    BY <2>5 DEF vars, IInv, ShowFindsTargets, DefaultSet
  <2> QED
    BY <2>1, <2>2, <2>3, <2>4, <2>5 DEF Next
<1>3. IInv => ShowFindsTargets
  BY DEF IInv
<1> QED
  BY <1>1, <1>2, <1>3, PTL DEF Spec
=============================================================================
