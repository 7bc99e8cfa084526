---------------------------- MODULE MCRedisFire ----------------------------
(***************************************************************************)
(* RedisFire on small clocks; each .cfg names its unit of time.            *)
(***************************************************************************)
EXTENDS RedisFire, TLC

MCPause == [n \in 1..MaxAttempts |-> ComputeBackoff(n, MinBackoff, MaxBackoff)]

\* Tokens are only compared.
Symmetry == Permutations(Token)
=============================================================================
