---------------------------- MODULE MCRedisQueue ----------------------------
(* Instances of RedisQueue for TLC. *)
EXTENDS RedisQueue, TLC

\* A timeout redis refuses, none, and one and a half milliseconds.
SomeTimeouts == {-2, 0, 3}

\* Items are told apart by nothing but their names, and so are connections.
Symmetry == Permutations(Items) \cup Permutations(Conns)

=============================================================================
