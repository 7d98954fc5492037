---------------------------- MODULE MCCommandTree ----------------------------
(* Two workers and four commands: c depends on a and b, so that two workers   *)
(* race to complete c's dependencies; d depends on b, so that c and d can be   *)
(* enqueued at once.  d may fail, while others are queued or run.              *)
EXTENDS CommandTree

CONSTANTS a, b, c, d

MCNodes == {a, b, c, d}
MCDependencies ==
  [n \in MCNodes |-> CASE n = c -> {a, b} [] n = d -> {b} [] OTHER -> {}]
MCChildren ==
  [n \in MCNodes |-> CASE n = a -> <<c>> [] n = b -> <<c, d>> [] OTHER -> <<>>]
MCRoots == <<a, b>>
MCFailing == {d}

==============================================================================
