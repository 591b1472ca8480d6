------------------------------ MODULE MCLinkMap ------------------------------
(* LinkMap with two indices and three names, each in a bucket of its own.  *)
EXTENDS LinkMap
CONSTANTS a, b, c
MCHash == [n \in Names |-> CASE n = a -> 0 [] n = b -> 1 [] n = c -> 2]
=============================================================================
