\* One load() of three getters, one of which may raise, then any gets.
CONSTANTS
    Getters = {"g1", "g2", "g3"}
    Sources = {"s1", "s2", "s3", "s4", "s5"}
    Resources = {r1}
    Paths = {x1, x2}
    NoPath = NoPath
    NotFound = NotFound
    Priorities <- MCPriorities
    LoaderOrder <- MCLoaderOrder
    Registrations <- MCRegistrations
    Faulty <- MCFaulty
    MaxLoads <- MCMaxLoads
SPECIFICATION Spec
INVARIANT TypeOK
PROPERTY ResolverRefines
