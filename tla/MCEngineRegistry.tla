-------------------------- MODULE MCEngineRegistry --------------------------
(* A broadcast namespace that admits wildcards, and a priority and a round-  *)
(* robin one that a pattern of the default namespace would match by its text *)
(* alone.  The broadcast channel's pattern matches only by backtracking.     *)
EXTENDS EngineRegistry

Plain == [hist |-> FALSE, ttl |-> FALSE, idle |-> FALSE, maxSubs |-> 0,
          fanout |-> "broadcast", wild |-> TRUE, publish |-> TRUE]

MCChans == { <<"m", ":", "a", "a", "b">>, <<"w", ":", "a">>, <<"r", ":", "a">> }
MCPats  == { <<"m", ":", "*", "a", "b">>, <<"*">> }

MCNamespaces ==
     <<"w">> :> [Plain EXCEPT !.wild = FALSE, !.fanout = "priority", !.hist = TRUE, !.ttl = TRUE]
  @@ <<"r">> :> [Plain EXCEPT !.wild = FALSE, !.fanout = "roundRobin", !.maxSubs = 1,
                              !.hist = TRUE, !.idle = TRUE]
MCDefault == Plain

\* TLC evaluates the matcher against its definition before it explores.
ASSUME MatchAssumption == MatchIsGlob
=============================================================================
