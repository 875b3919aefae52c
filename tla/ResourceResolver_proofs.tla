------------------------ MODULE ResourceResolver_proofs ------------------------
(***************************************************************************)
(* Proofs about ResourceResolver.get: probing the per-priority tiers from  *)
(* the highest priority down, each tier in registration order, returns    *)
(* what the first able source of ONE list sorted by decreasing priority   *)
(* returns (ResolverSpec!Get), for every list that orders the tiers'      *)
(* sources that way.  This is the Get step of the refinement              *)
(* MC_ResourceResolver checks, proved for all priorities, sources and      *)
(* resources.                                                              *)
(***************************************************************************)
EXTENDS MC_ResourceResolver, NatFacts, TLAPS

(* The places of the tiers t: a priority and an index in its tier.         *)
Entries(t) == UNION {{<<pr, i>> : i \in DOMAIN t[pr]} : pr \in Priorities}

(* Where prioritylist iteration visits e before f: a higher priority, or  *)
(* the same priority and registered earlier.                               *)
Before(e, f) == e[1] > f[1] \/ (e[1] = f[1] /\ e[2] < f[2])

(* o lists the sources of t, tagged with their priority, each place once, *)
(* in iteration order.                                                      *)
Flattens(o, t) ==
    \E pos \in [Entries(t) -> DOMAIN o] :
        /\ \A k \in DOMAIN o : \E e \in Entries(t) : pos[e] = k
        /\ \A e \in Entries(t) : o[pos[e]] = <<t[e[1]][e[2]], e[1]>>
        /\ \A e, f \in Entries(t) : Before(e, f) => pos[e] < pos[f]

(* The choices Get (lines 285-307) makes, named: the priorities with a    *)
(* source that finds r, the highest of them, and the first such source in *)
(* its tier; and the spec's hits in the sorted list.                        *)
HitsI(t, ans, r) ==
    {pr \in Priorities : \E i \in DOMAIN t[pr] : ans[t[pr][i]][r] # NoPath}
TopPr(t, ans, r) ==
    CHOOSE x \in HitsI(t, ans, r) : \A y \in HitsI(t, ans, r) : y <= x
FirstIn(t, ans, r, pr) ==
    CHOOSE x \in DOMAIN t[pr] :
        /\ ans[t[pr][x]][r] # NoPath
        /\ \A y \in 1..x - 1 : ans[t[pr][y]][r] = NoPath
HitsS(o, ans, r) == {k \in DOMAIN o : ans[o[k][1]][r] # NoPath}

(* First match over the tiers is first match over the sorted list: both   *)
(* find nothing or neither does, and the highest tier's first able source *)
(* is the list's first able source.                                         *)
LEMMA FirstHit ==
    ASSUME ResolverAssumption,
           NEW t \in [Priorities -> Seq(Sources)], NEW o \in Seq(Sources \X Priorities),
           NEW ans, NEW r, Flattens(o, t)
    PROVE  /\ HitsI(t, ans, r) = {} <=> HitsS(o, ans, r) = {}
           /\ HitsS(o, ans, r) # {} =>
                 ans[t[TopPr(t, ans, r)][FirstIn(t, ans, r, TopPr(t, ans, r))]][r]
                   = ans[o[Min(HitsS(o, ans, r))][1]][r]
<1>1. PICK pos \in [Entries(t) -> DOMAIN o] :
        /\ \A k \in DOMAIN o : \E e \in Entries(t) : pos[e] = k
        /\ \A e \in Entries(t) : o[pos[e]] = <<t[e[1]][e[2]], e[1]>>
        /\ \A e, f \in Entries(t) : Before(e, f) => pos[e] < pos[f]
  BY DEF Flattens
<1>2. \A pr \in Priorities : \A i \in DOMAIN t[pr] :
         /\ <<pr, i>> \in Entries(t)
         /\ pos[<<pr, i>>] \in DOMAIN o
         /\ o[pos[<<pr, i>>]][1] = t[pr][i]
  <2> SUFFICES ASSUME NEW pr \in Priorities, NEW i \in DOMAIN t[pr]
               PROVE  /\ <<pr, i>> \in Entries(t)
                      /\ pos[<<pr, i>>] \in DOMAIN o
                      /\ o[pos[<<pr, i>>]][1] = t[pr][i]
    OBVIOUS
  <2>1. <<pr, i>> \in Entries(t)
    BY DEF Entries
  <2> QED
    BY <2>1, <1>1
<1>3. ASSUME NEW k \in DOMAIN o
      PROVE  \E pr \in Priorities : \E i \in DOMAIN t[pr] : pos[<<pr, i>>] = k
  <2>1. PICK e \in Entries(t) : pos[e] = k
    BY <1>1
  <2>2. PICK pr \in Priorities : e \in {<<pr, i>> : i \in DOMAIN t[pr]}
    BY DEF Entries
  <2>3. PICK i \in DOMAIN t[pr] : e = <<pr, i>>
    BY <2>2
  <2> QED
    BY <2>1, <2>3
<1>4. HitsI(t, ans, r) = {} <=> HitsS(o, ans, r) = {}
  <2>1. ASSUME NEW pr \in HitsI(t, ans, r) PROVE HitsS(o, ans, r) # {}
    <3>1. pr \in Priorities
      BY DEF HitsI
    <3>2. PICK i \in DOMAIN t[pr] : ans[t[pr][i]][r] # NoPath
      BY DEF HitsI
    <3>3. pos[<<pr, i>>] \in DOMAIN o /\ o[pos[<<pr, i>>]][1] = t[pr][i]
      BY <3>1, <1>2
    <3> QED
      BY <3>2, <3>3 DEF HitsS
  <2>2. ASSUME NEW k \in HitsS(o, ans, r) PROVE HitsI(t, ans, r) # {}
    <3>1. PICK pr \in Priorities : \E i \in DOMAIN t[pr] : pos[<<pr, i>>] = k
      BY <1>3 DEF HitsS
    <3> QED
      BY <3>1, <1>2 DEF HitsS, HitsI
  <2> QED
    BY <2>1, <2>2
<1>5. SUFFICES ASSUME HitsS(o, ans, r) # {}
               PROVE  ans[t[TopPr(t, ans, r)][FirstIn(t, ans, r, TopPr(t, ans, r))]][r]
                        = ans[o[Min(HitsS(o, ans, r))][1]][r]
  BY <1>4
<1>6. PICK k0 \in HitsS(o, ans, r) : \A k \in HitsS(o, ans, r) : k0 <= k /\ k0 = Min(HitsS(o, ans, r))
  <2>1. HitsS(o, ans, r) \subseteq Nat
    BY DEF HitsS
  <2> QED
    BY <1>5, <2>1, LeastNat
<1>7. PICK pr0 \in Priorities : \E i \in DOMAIN t[pr0] : pos[<<pr0, i>>] = k0
  BY <1>3, <1>6 DEF HitsS
<1>7a. PICK i0 \in DOMAIN t[pr0] : pos[<<pr0, i0>>] = k0
  BY <1>7
<1>8. o[k0][1] = t[pr0][i0] /\ ans[t[pr0][i0]][r] # NoPath
  BY <1>2, <1>6, <1>7a DEF HitsS
(* No source of a higher priority, or of pr0 registered before i0, finds r. *)
<1>9. ASSUME NEW pr \in Priorities, NEW i \in DOMAIN t[pr],
             Before(<<pr, i>>, <<pr0, i0>>)
      PROVE  ans[t[pr][i]][r] = NoPath
  <2>1. pos[<<pr, i>>] < k0
    BY <1>9, <1>1, <1>2, <1>7a
  <2>2. pos[<<pr, i>>] \in DOMAIN o /\ o[pos[<<pr, i>>]][1] = t[pr][i]
    BY <1>2
  <2>3. pos[<<pr, i>>] \in Nat /\ k0 \in Nat
    BY <2>2, <1>6 DEF HitsS
  <2>4. pos[<<pr, i>>] \notin HitsS(o, ans, r)
    BY <2>1, <2>3, <1>6
  <2> QED
    BY <2>2, <2>4 DEF HitsS
<1>10. /\ pr0 \in HitsI(t, ans, r)
       /\ \A y \in HitsI(t, ans, r) : y <= pr0
  <2>1. pr0 \in HitsI(t, ans, r)
    BY <1>8 DEF HitsI
  <2>2. ASSUME NEW y \in HitsI(t, ans, r) PROVE y <= pr0
    <3>1. PICK j \in DOMAIN t[y] : ans[t[y][j]][r] # NoPath
      BY DEF HitsI
    <3>2. y \in Nat /\ pr0 \in Nat
      BY ResolverAssumption DEF HitsI
    <3> QED
      BY <3>1, <3>2, <1>9 DEF Before, HitsI
  <2> QED
    BY <2>1, <2>2
<1>11. TopPr(t, ans, r) = pr0
  <2>1. /\ TopPr(t, ans, r) \in HitsI(t, ans, r)
        /\ \A y \in HitsI(t, ans, r) : y <= TopPr(t, ans, r)
    BY <1>10 DEF TopPr
  <2>2. TopPr(t, ans, r) \in Nat /\ pr0 \in Nat
    BY <2>1, ResolverAssumption DEF HitsI
  <2> QED
    BY <2>1, <2>2, <1>10
<1>12. \A y \in 1..i0 - 1 : ans[t[pr0][y]][r] = NoPath
  <2> SUFFICES ASSUME NEW y \in 1..i0 - 1 PROVE ans[t[pr0][y]][r] = NoPath
    OBVIOUS
  <2>1. y \in DOMAIN t[pr0] /\ y < i0
    BY <1>7a
  <2> QED
    BY <2>1, <1>9 DEF Before
<1>13. FirstIn(t, ans, r, pr0) = i0
  <2>1. /\ FirstIn(t, ans, r, pr0) \in DOMAIN t[pr0]
        /\ ans[t[pr0][FirstIn(t, ans, r, pr0)]][r] # NoPath
        /\ \A y \in 1..FirstIn(t, ans, r, pr0) - 1 : ans[t[pr0][y]][r] = NoPath
    BY <1>8, <1>12 DEF FirstIn
  <2>2. DOMAIN t[pr0] = 1..Len(t[pr0])
    OBVIOUS
  <2>3. ~(FirstIn(t, ans, r, pr0) < i0)
    BY <2>1, <2>2, <1>12
  <2>4. ~(i0 < FirstIn(t, ans, r, pr0))
    <3> SUFFICES ASSUME i0 < FirstIn(t, ans, r, pr0) PROVE FALSE
      OBVIOUS
    <3>1. i0 \in 1..FirstIn(t, ans, r, pr0) - 1
      BY <2>1, <2>2
    <3> QED
      BY <3>1, <2>1, <1>8
  <2> QED
    BY <2>1, <2>2, <2>3, <2>4
<1> QED
  BY <1>6, <1>8, <1>11, <1>13

-----------------------------------------------------------------------------
(* get(resource, strict) refines the spec's Get: in every state whose     *)
(* tiers are sequences of sources and whose single list Ordered flattens   *)
(* them in prioritylist order (which TLC checks on every state of run      *)
(* resolver_order), a get() step of ResourceResolver (lines 285-307) is a *)
(* Get step of ResolverSpec under the refinement mapping ordered <- Ordered *)
(* of ResolverRefines: the same outcome, NotFound / None included, and     *)
(* the list unchanged.                                                      *)
THEOREM GetRefines ==
    ASSUME ResolverAssumption,
           tiers \in [Priorities -> Seq(Sources)],
           Ordered \in Seq(Sources \X Priorities),
           Flattens(Ordered, tiers),
           NEW r \in Resources, NEW strict \in BOOLEAN,
           Get(r, strict)
    PROVE  Abstract!Get(r, strict)
<1> DEFINE out == IF HitsI(tiers, answer, r) = {}
                  THEN IF strict THEN NotFound ELSE NoPath
                  ELSE answer[tiers[TopPr(tiers, answer, r)]
                                   [FirstIn(tiers, answer, r, TopPr(tiers, answer, r))]][r]
           spec == IF HitsS(Ordered, answer, r) = {}
                   THEN IF strict THEN NotFound ELSE NoPath
                   ELSE answer[Ordered[Min(HitsS(Ordered, answer, r))][1]][r]
<1>1. /\ result' = [res |-> r, strict |-> strict, out |-> out]
      /\ UNCHANGED <<getters, tiers, answer, loads, phase>>
  BY DEF Get, HitsI, TopPr, FirstIn
<1>2. Ordered' = Ordered
  BY <1>1 DEF Ordered
<1>3. /\ HitsI(tiers, answer, r) = {} <=> HitsS(Ordered, answer, r) = {}
      /\ HitsS(Ordered, answer, r) # {} =>
            answer[tiers[TopPr(tiers, answer, r)]
                        [FirstIn(tiers, answer, r, TopPr(tiers, answer, r))]][r]
              = answer[Ordered[Min(HitsS(Ordered, answer, r))][1]][r]
  BY FirstHit
<1>3a. out = spec
  BY <1>3
<1>4. SUFFICES /\ result' = [res |-> r, strict |-> strict, out |-> spec]
               /\ UNCHANGED <<Ordered, getters, answer, loads, phase>>
  BY DEF Abstract!Get, Abstract!Min, Min, HitsS
<1> QED
  BY <1>1, <1>2, <1>3a

=============================================================================
