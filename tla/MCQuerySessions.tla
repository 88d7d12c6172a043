-------------------------- MODULE MCQuerySessions --------------------------
(* QuerySessions for TLC: ids of sessions, executions and page requests are  *)
(* interchangeable.                                                          *)
EXTENDS QuerySessions, TLC

Symmetry == Permutations(Sessions) \cup Permutations(Execs) \cup Permutations(Pages)
=============================================================================
