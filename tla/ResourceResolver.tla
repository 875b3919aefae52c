-------------------------- MODULE ResourceResolver --------------------------
(***************************************************************************)
(* ResourceResolver of wa/framework/resource.py: load() asks every getter  *)
(* the plugin loader lists to initialize() and register() its sources,     *)
(* register() adds a source to the prioritylist self.sources, and          *)
(* get(resource, strict) probes the sources from the highest priority down *)
(* and returns the first path one of them finds.                           *)
(*                                                                         *)
(* The prioritylist (wa.utils.types, not part of this source tree) is      *)
(* modelled from the spec as one FIFO sequence per priority value, tiers.  *)
(* What a source returns for a resource is answer, chosen once: the        *)
(* sources search a file system that does not change during a run.        *)
(* Nothing in the class guards the order of calls: get() may come before   *)
(* load(), after a load() that raised, and load() may be called again.     *)
(***************************************************************************)
EXTENDS Naturals, Sequences, FiniteSets

CONSTANTS
    Getters,        \* getter plugins
    Sources,        \* the callables getters register
    Priorities,     \* the SourcePriority values in use
    Resources,      \* resources asked for
    Paths,          \* paths a source may return
    NoPath,         \* a source or a non-strict get returning None
    NotFound,       \* get raising ResourceError (strict)
    LoaderOrder,    \* the order loader.list_plugins('resource_getter') yields
    Registrations,  \* the register(source, priority) calls of each getter
    Faulty,         \* getters whose initialize() or register() may raise
    MaxLoads        \* bound on the number of load() calls

ASSUME ResolverAssumption ==
    /\ Priorities \subseteq Nat /\ Priorities # {}
    /\ NoPath \notin Paths /\ NotFound \notin Paths \cup {NoPath}
    /\ LoaderOrder \in Seq(Getters)
    /\ Registrations \in [Getters -> Seq(Sources \X Priorities)]
    /\ Faulty \subseteq Getters
    /\ MaxLoads \in Nat

Answers == [Sources -> [Resources -> Paths \cup {NoPath}]]
Outcomes == Paths \cup {NoPath, NotFound}
NoResult == [res |-> "none"]

VARIABLES
    getters,   \* self.getters
    tiers,     \* self.sources: priority -> sources in registration order
    answer,    \* what source(resource) returns
    loads,     \* load() calls so far
    phase,     \* "new", "ready", or "failed" once a load() raised
    result     \* the last get(): its arguments and what it returned

vars == <<getters, tiers, answer, loads, phase, result>>

TypeOK ==
    /\ getters \in Seq(Getters)
    /\ tiers \in [Priorities -> Seq(Sources)]
    /\ answer \in Answers
    /\ loads \in 0..MaxLoads
    /\ phase \in {"new", "ready", "failed"}
    /\ result \in [res : Resources, strict : BOOLEAN, out : Outcomes]
                  \cup {NoResult}

Init ==
    /\ getters = << >>
    /\ tiers = [pr \in Priorities |-> << >>]
    /\ answer \in Answers
    /\ loads = 0
    /\ phase = "new"
    /\ result = NoResult

-----------------------------------------------------------------------------
(* The register(source, priority) calls made by the getters               *)
(* LoaderOrder[1..n], in order.                                            *)
RegsOf(n) ==
    LET cat[i \in 0..n] ==
            IF i = 0 THEN << >> ELSE cat[i - 1] \o Registrations[LoaderOrder[i]]
    IN  cat[n]

(* ResourceResolver.register (lines 277-283) for each call of regs:        *)
(* prioritylist.add appends the source to the sequence of its priority.    *)
Register(t, regs) ==
    [pr \in Priorities |->
        LET mine == SelectSeq(regs, LAMBDA e : e[2] = pr)
        IN  t[pr] \o [j \in 1..Len(mine) |-> mine[j][1]]]

(* load(), lines 264-275, when every getter initializes and registers.     *)
Load ==
    /\ loads < MaxLoads
    /\ tiers' = Register(tiers, RegsOf(Len(LoaderOrder)))
    /\ getters' = getters \o LoaderOrder
    /\ loads' = loads + 1
    /\ phase' = "ready"
    /\ UNCHANGED <<answer, result>>

(* load() when getter LoaderOrder[k] raises in initialize() (m = 0) or     *)
(* after m of its register calls: the exception leaves load() with the     *)
(* sources registered so far in place and the getter not appended.        *)
LoadFails(k, m) ==
    LET g == LoaderOrder[k] IN
    /\ loads < MaxLoads
    /\ g \in Faulty
    /\ tiers' = Register(tiers, RegsOf(k - 1) \o SubSeq(Registrations[g], 1, m))
    /\ getters' = getters \o SubSeq(LoaderOrder, 1, k - 1)
    /\ loads' = loads + 1
    /\ phase' = "failed"
    /\ UNCHANGED <<answer, result>>

(* Mutant: the loop does not return at the first path found, so the last  *)
(* source that finds one wins.                                              *)
GetNoEarlyReturn(r, strict) ==
    LET hits == {pr \in Priorities :
                    \E i \in DOMAIN tiers[pr] : answer[tiers[pr][i]][r] # NoPath}
        pr   == CHOOSE x \in hits : \A y \in hits : x <= y
        i    == CHOOSE x \in DOMAIN tiers[pr] :
                    /\ answer[tiers[pr][x]][r] # NoPath
                    /\ \A y \in DOMAIN tiers[pr] :
                          answer[tiers[pr][y]][r] # NoPath => y <= x
    IN
    /\ result' = [res |-> r, strict |-> strict,
                  out |-> IF hits = {} THEN (IF strict THEN NotFound ELSE NoPath)
                          ELSE answer[tiers[pr][i]][r]]
    /\ UNCHANGED <<getters, tiers, answer, loads, phase>>

(* Mutant: get returns the source that answered instead of its answer.  *)
GetReturnsSource(r, strict) ==
    LET hits == {pr \in Priorities :
                    \E i \in DOMAIN tiers[pr] : answer[tiers[pr][i]][r] # NoPath}
        pr   == CHOOSE x \in hits : \A y \in hits : y <= x
        i    == CHOOSE x \in DOMAIN tiers[pr] :
                    /\ answer[tiers[pr][x]][r] # NoPath
                    /\ \A y \in 1..x - 1 : answer[tiers[pr][y]][r] = NoPath
    IN
    /\ result' = [res |-> r, strict |-> strict,
                  out |-> IF hits = {} THEN (IF strict THEN NotFound ELSE NoPath)
                          ELSE tiers[pr][i]]
    /\ UNCHANGED <<getters, tiers, answer, loads, phase>>

(* get(resource, strict), lines 285-307.  Iterating the prioritylist      *)
(* visits the highest priority holding a source first and, within it, the  *)
(* sources in registration order; the first non-None result is returned.   *)
(* With none: ResourceError if strict, else None.                          *)
Get(r, strict) ==
    LET hits == {pr \in Priorities :
                    \E i \in DOMAIN tiers[pr] : answer[tiers[pr][i]][r] # NoPath}
        pr   == CHOOSE x \in hits : \A y \in hits : y <= x
        i    == CHOOSE x \in DOMAIN tiers[pr] :
                    /\ answer[tiers[pr][x]][r] # NoPath
                    /\ \A y \in 1..x - 1 : answer[tiers[pr][y]][r] = NoPath
    IN
    /\ result' = [res |-> r, strict |-> strict,
                  out |-> IF hits = {} THEN (IF strict THEN NotFound ELSE NoPath)
                          ELSE answer[tiers[pr][i]][r]]
    /\ UNCHANGED <<getters, tiers, answer, loads, phase>>

Next ==
    \/ Load
    \/ \E k \in 1..Len(LoaderOrder) :
          \E m \in 0..Len(Registrations[LoaderOrder[k]]) : LoadFails(k, m)
    \/ \E r \in Resources, strict \in BOOLEAN : Get(r, strict)

Spec == Init /\ [][Next]_vars

=============================================================================
