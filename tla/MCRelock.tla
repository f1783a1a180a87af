------------------------------- MODULE MCRelock -------------------------------
(* Constants for model-checking Relock: two commands at once on a host with *)
(* two locked values, two host keys over time and one recovery key.         *)
EXTENDS Relock, TLC

CONSTANTS p1, p2, v1, v2, s1, s2, h1, h2, r1

Interchangeable ==
  Permutations({p1, p2}) \cup Permutations({v1, v2}) \cup Permutations({s1, s2})
    \cup Permutations({h1, h2})
=============================================================================
