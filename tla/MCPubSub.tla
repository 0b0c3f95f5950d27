------------------------------ MODULE MCPubSub ------------------------------
(* Instances of PubSub for TLC: the pattern p covers the channel a. *)
EXTENDS PubSub, TLC

CONSTANTS a, p

PatternCovers == {<<p, a>>}

=============================================================================
