----------------------------- MODULE ResolverSpec -----------------------------
(***************************************************************************)
(* What the resolver promises (spec 4.5, 4.6, 8): the registered sources   *)
(* form ONE list sorted by decreasing priority, a new source going after   *)
(* every source of the same or a higher priority, and get(resource,        *)
(* strict) returns what the first source of that list able to answer      *)
(* returns, or fails (strict) / returns None.  ResourceResolver implements *)
(* it with one sequence per priority; MC_ResourceResolver checks that.     *)
(***************************************************************************)
EXTENDS Naturals, SequencesExt

CONSTANTS Getters, Sources, Priorities, Resources, Paths, NoPath, NotFound,
          LoaderOrder, Registrations, Faulty, MaxLoads

VARIABLES ordered, getters, answer, loads, phase, result

vars == <<ordered, getters, answer, loads, phase, result>>

Answers == [Sources -> [Resources -> Paths \cup {NoPath}]]
NoResult == [res |-> "none"]

Init ==
    /\ ordered = << >>
    /\ getters = << >>
    /\ answer \in Answers
    /\ loads = 0
    /\ phase = "new"
    /\ result = NoResult

(* add(source, priority): insert behind everything of priority >= it.     *)
Add(o, e) ==
    InsertAt(o, Cardinality({i \in DOMAIN o : o[i][2] >= e[2]}) + 1, e)

(* The registrations of LoaderOrder[1..n] followed by extra.              *)
AddAll(o, n, extra) ==
    LET regs == FlattenSeq([i \in 1..n |-> Registrations[LoaderOrder[i]]]) \o extra
    IN  FoldLeft(Add, o, regs)

Load ==
    /\ loads < MaxLoads
    /\ ordered' = AddAll(ordered, Len(LoaderOrder), << >>)
    /\ getters' = getters \o LoaderOrder
    /\ loads' = loads + 1
    /\ phase' = "ready"
    /\ UNCHANGED <<answer, result>>

LoadFails(k, m) ==
    /\ loads < MaxLoads
    /\ LoaderOrder[k] \in Faulty
    /\ ordered' = AddAll(ordered, k - 1, SubSeq(Registrations[LoaderOrder[k]], 1, m))
    /\ getters' = getters \o SubSeq(LoaderOrder, 1, k - 1)
    /\ loads' = loads + 1
    /\ phase' = "failed"
    /\ UNCHANGED <<answer, result>>

(* First match wins, not best match.                                       *)
Get(r, strict) ==
    LET hits == {i \in DOMAIN ordered : answer[ordered[i][1]][r] # NoPath}
    IN  /\ result' = [res |-> r, strict |-> strict,
                      out |-> IF hits = {} THEN IF strict THEN NotFound ELSE NoPath
                              ELSE answer[ordered[Min(hits)][1]][r]]
        /\ UNCHANGED <<ordered, getters, answer, loads, phase>>

Next ==
    \/ Load
    \/ \E k \in 1..Len(LoaderOrder) :
          \E m \in 0..Len(Registrations[LoaderOrder[k]]) : LoadFails(k, m)
    \/ \E r \in Resources, strict \in BOOLEAN : Get(r, strict)

Spec == Init /\ [][Next]_vars
=============================================================================
