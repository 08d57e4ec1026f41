----------------------- MODULE MC_CollectionStrategy -----------------------
(* A token with permit and a configuration that demands it.               *)
EXTENDS CollectionStrategy

Kinds ==
    {[preset |-> "none", supports |-> {"eip2612"}, heuristic |-> "standard",
      heuristicNamed |-> FALSE]}
=============================================================================
