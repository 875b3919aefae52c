-------------------------- MODULE MC_ResourceResolver --------------------------
(***************************************************************************)
(* A small resolver for TLC: three getters in loader order g1, g2, g3.     *)
(* g1 registers s1 at 10 then s2 at 20, g2 registers s3 at 10, g3 (which   *)
(* may raise) registers s4 at 20 then s5 at 0: every priority is used,     *)
(* two sources tie at 10 and at 20 across getters, and a failure can hit   *)
(* g3 before or between its register() calls.                              *)
(***************************************************************************)
EXTENDS ResourceResolver, SequencesExt

MCPriorities == {0, 10, 20}
MCLoaderOrder == <<"g1", "g2", "g3">>
MCRegistrations ==
    [g \in {"g1", "g2", "g3"} |->
        CASE g = "g1" -> << <<"s1", 10>>, <<"s2", 20>> >>
          [] g = "g2" -> << <<"s3", 10>> >>
          [] g = "g3" -> << <<"s4", 20>>, <<"s5", 0>> >>]
MCFaulty == {"g3"}
MCMaxLoads == 1

(* The single list the tiers stand for: priorities from high to low, each *)
(* tier's sources in registration order, tagged with their priority.      *)
Descending == SetToSortSeq(Priorities, >)
Ordered ==
    FlattenSeq([j \in 1..Len(Descending) |->
                  [i \in DOMAIN tiers[Descending[j]] |->
                      <<tiers[Descending[j]][i], Descending[j]>>]])

Abstract == INSTANCE ResolverSpec WITH ordered <- Ordered

(* ResourceResolver, register() and get() together behave as the          *)
(* resolver the spec describes: a stable priority-sorted source list with *)
(* first-match-wins lookup.                                                *)
ResolverRefines == Abstract!Spec
=============================================================================
